---- MODULE Spec2Model ----
(***************************************************************************)
(* husgit-cli: branch-pair resolution (services/flowExecution.ts,          *)
(* resolveBranchPairs over config/manager.ts) and merge-request            *)
(* reconciliation (executeMergeRequests over gitlab/client.ts).            *)
(*                                                                         *)
(* Strings that the code only compares are modelled as strings.  Branch    *)
(* names are modelled as sequences: the empty string is <<>>, and the      *)
(* branch that project p maps environment e to is <<p, e>>.                *)
(***************************************************************************)
EXTENDS Integers, Sequences, FiniteSets

VARIABLES
  \* ---- resolveBranchPairs: one call ----
  config,       \* HusgitConfig: [environments |-> sequence of Environment]
  sourceEnvName,\* argument sourceEnvName
  direction,    \* argument direction: "release" | "backport"
  projects,     \* argument projects: sequence of ProjectConfig
  resolved,     \* how the call ended: [kind, error, pairs]
  rpc,          \* "call" before resolveBranchPairs runs, "done" after
  \* ---- the source-control host ----
  mrs,          \* the open merge requests the host holds
  \* ---- executeMergeRequests: the call in progress ----
  pairs,        \* argument pairs: sequence of BranchPair
  title,        \* argument title
  description,  \* argument description (NoDescription when not given)
  idx,          \* position in pairs of the pair the loop is at
  pc,           \* "idle", the request the loop sends next, or "returned"
  found,        \* iid of the merge request the lookup found (NoIid: none)
  results,      \* the local results array
  requests,     \* the requests this call has had answered, with the answers
  rerun,        \* TRUE when this call repeats the previous call's arguments
  awaiting,     \* TRUE while the call is suspended at an await
  inflight,     \* the requests the client has sent and not yet had answered
  \* ---- one run of the release or backport command ----
  options,      \* [dryRun, token, projects]: --dry-run given, GITLAB_TOKEN
                \* set, the paths named by --projects or by the --group
  cmd,          \* "none", "start", "resolved", "executing", or how the run ended
  \* ---- one run of the status command ----
  stype,        \* options.type
  envPairs,     \* what buildEnvPairs returned
  si,           \* position in projectsToQuery of the project the scan is at
  sj,           \* position in envPairs of the pair the scan is at
  spc,          \* "none", "build", "start", "scan", or how the run ended
  openMRs,      \* the records collected
  warnings,     \* the projects spinner.warn was called for
  \* ---- the configuration's registry ----
  cfgProjects,  \* config.projects: fullPath -> ProjectConfig
  cfgGroups,    \* config.groups: name -> projectPaths
  cfgLast,      \* the last operation on the registry: [op, name, fullPath, threw]
  \* ---- the configuration file ----
  stored,       \* ~/.husgit/config.json: absent, not JSON, or a configuration
  origin,       \* the file as it was when the command started
  loaded,       \* what loadConfig returned to the command
  given,        \* the file handed to config set: [readable, json, value]
  backup,       \* the backup config set has written: [written, config]
  fpc,          \* "idle", the step config set is at, or how the command ended
  ran,          \* the command run on the file and the times it loaded it
  \* ---- the interactive menu ----
  mpc,          \* "none", where interactiveMenu is, "ended", or "error"
  action,       \* the action chosen at the main menu
  sub,          \* the last prompt or flow of the menu: [flow, end, source]
  \* ---- the multi-project add flow ----
  addRun,       \* the last run: [ran, before, saved, failed]
  \* ---- the version check ----
  now,          \* Date.now(), in milliseconds since the first call
  elapses,      \* the times the clock has been advanced
  cache,        \* ~/.husgit/version-cache.json: [some, latestVersion, checkedAt]
  lastFetch,    \* the last fetch that succeeded: [some, latestVersion, checkedAt]
  vresult       \* the last call of checkVersion: what it saw and returned

resolveVars == <<config, sourceEnvName, direction, projects, resolved, rpc>>

execVars ==
  <<mrs, pairs, title, description, idx, pc, found, results, requests, rerun,
    awaiting, inflight>>

commandVars == <<options, cmd>>

statusVars == <<stype, envPairs, si, sj, spc, openMRs, warnings>>

storeVars == <<cfgProjects, cfgGroups, cfgLast>>

fileVars == <<stored, origin, loaded, given, backup, fpc, ran>>

menuVars == <<mpc, action, sub>>

addVars == <<addRun>>

versionVars == <<now, elapses, cache, lastFetch, vresult>>

laterVars == <<fileVars, menuVars, addVars, versionVars>>

vars ==
  <<resolveVars, execVars, commandVars, statusVars, storeVars, laterVars>>

-----------------------------------------------------------------------------
(* Bounds *)

MaxEnvs == 3        \* longest environment chain
MaxProjects == 2    \* longest project list handed to resolveBranchPairs
MaxPairs == 2       \* longest pair list handed to executeMergeRequests
MaxFaults == 1      \* most failed queries in one run of the status command
MaxChain == 2       \* longest environments array in a file or typed into setup
MaxElapses == 3     \* most advances of the clock between calls of checkVersion

-----------------------------------------------------------------------------
(* Data *)

\* Environment names, by the order value the environment carries.  The code
\* only compares names for equality, so naming them by order loses nothing.
AllEnvNames == <<"develop", "staging", "production", "hotfix", "sandbox">>

EnvName(order) == AllEnvNames[order + 1]

\* A name no chain holds.
UnknownEnvName == "nowhere"

\* JavaScript's undefined, where an Environment is expected.
NoEnvironment == [name |-> "", order |-> -1]

\* JavaScript's undefined, where a branch name (a string) is expected.
UndefinedBranch == <<"undefined">>

EmptyBranch == <<>>

\* JavaScript's undefined, where the iid of a merge request is expected.
NoIid == <<>>

ProjectPaths == <<"grp/api", "grp/web", "grp/ops", "grp/docs">>

\* The host's numeric id of the project at each path.
ExternalIdOf(path) ==
  CASE path = "grp/api" -> "101"
    [] path = "grp/web" -> "102"
    [] path = "grp/ops" -> "103"
    [] OTHER -> "104"

\* Truthiness of a branch-map lookup: undefined and "" are falsy.
Falsy(branch) == branch = UndefinedBranch \/ branch = EmptyBranch

\* project.branchMap[envName]
BranchOf(project, envName) ==
  IF envName \in DOMAIN project.branchMap
    THEN project.branchMap[envName]
    ELSE UndefinedBranch

\* The least index of a non-empty set of array indices.
First(indices) == CHOOSE i \in indices : \A j \in indices : i <= j

\* config.environments.find((e) => e.name === name): the first element, in
\* array order, with that name; undefined when there is none.
FindByName(envs, name) ==
  LET hits == {i \in DOMAIN envs : envs[i].name = name}
  IN  IF hits = {} THEN NoEnvironment ELSE envs[First(hits)]

\* config.environments.find((e) => e.order === order)
FindByOrder(envs, order) ==
  LET hits == {i \in DOMAIN envs : envs[i].order = order}
  IN  IF hits = {} THEN NoEnvironment ELSE envs[First(hits)]

-----------------------------------------------------------------------------
(* config/manager.ts *)

getEnvironmentByName(cfg, name) == FindByName(cfg.environments, name)

\* A lookup of the environment two steps on.
getNextEnvironmentSkipping(cfg, envName) ==
  LET env == getEnvironmentByName(cfg, envName)
  IN  IF env = NoEnvironment THEN NoEnvironment
      ELSE FindByOrder(cfg.environments, env.order + 2)

getNextEnvironment(cfg, envName) ==
  LET env == getEnvironmentByName(cfg, envName)
  IN  IF env = NoEnvironment THEN NoEnvironment
      ELSE FindByOrder(cfg.environments, env.order + 1)

getPreviousEnvironment(cfg, envName) ==
  LET env == getEnvironmentByName(cfg, envName)
  IN  IF env = NoEnvironment THEN NoEnvironment
      ELSE FindByOrder(cfg.environments, env.order - 1)

-----------------------------------------------------------------------------
(* services/flowExecution.ts: resolveBranchPairs *)

Thrown(error) == [kind |-> "throw", error |-> error, pairs |-> <<>>]

Returned(out) == [kind |-> "return", error |-> "", pairs |-> out]

\* A loop that drops a project with a missing mapping and goes on.
RECURSIVE ResolveLoopSkipping(_, _, _, _, _)
ResolveLoopSkipping(projs, k, srcName, tgtName, out) ==
  IF k > Len(projs) THEN Returned(out)
  ELSE
    LET project == projs[k]
        sourceBranch == BranchOf(project, srcName)
        targetBranch == BranchOf(project, tgtName)
    IN  IF Falsy(sourceBranch) \/ Falsy(targetBranch)
          THEN ResolveLoopSkipping(projs, k + 1, srcName, tgtName, out)
          ELSE ResolveLoopSkipping(projs, k + 1, srcName, tgtName,
                 Append(out, [project |-> project,
                                sourceBranch |-> sourceBranch,
                                targetBranch |-> targetBranch]))

\* A loop that puts each new pair in front of the ones collected so far.
RECURSIVE ResolveLoopPrepending(_, _, _, _, _)
ResolveLoopPrepending(projs, k, srcName, tgtName, out) ==
  IF k > Len(projs) THEN Returned(out)
  ELSE
    LET project == projs[k]
        sourceBranch == BranchOf(project, srcName)
        targetBranch == BranchOf(project, tgtName)
    IN  IF Falsy(sourceBranch) \/ Falsy(targetBranch)
          THEN Thrown("MissingBranchMapping")
          ELSE ResolveLoopPrepending(projs, k + 1, srcName, tgtName,
                 <<[project |-> project,
                    sourceBranch |-> sourceBranch,
                    targetBranch |-> targetBranch]>> \o out)

\* for (const project of projects) { ... }, from the k-th project on.
RECURSIVE ResolveLoop(_, _, _, _, _)
ResolveLoop(projs, k, srcName, tgtName, out) ==
  IF k > Len(projs) THEN Returned(out)
  ELSE
    LET project == projs[k]
        sourceBranch == BranchOf(project, srcName)
        targetBranch == BranchOf(project, tgtName)
    IN  IF Falsy(sourceBranch) \/ Falsy(targetBranch)
          THEN Thrown("MissingBranchMapping")
          ELSE ResolveLoop(projs, k + 1, srcName, tgtName,
                 Append(out, [project |-> project,
                                sourceBranch |-> sourceBranch,
                                targetBranch |-> targetBranch]))

\* The target environment resolveBranchPairs picks (lines 25-28).
TargetEnvironment(cfg, srcName, dir) ==
  IF dir = "release"
    THEN getNextEnvironment(cfg, srcName)
    ELSE getPreviousEnvironment(cfg, srcName)

resolveBranchPairs(cfg, srcName, dir, projs) ==
  LET sourceEnv == getEnvironmentByName(cfg, srcName)
      targetEnv == TargetEnvironment(cfg, srcName, dir)
  IN  IF sourceEnv = NoEnvironment THEN Thrown("EnvironmentNotFound")
      ELSE IF targetEnv = NoEnvironment THEN Thrown("NoAdjacentEnvironment")
      ELSE ResolveLoop(projs, 1, srcName, targetEnv.name, <<>>)

-----------------------------------------------------------------------------
(* Inputs of resolveBranchPairs *)

\* The arrays validateConfig accepts and the setup flow writes: distinct names,
\* order values exactly 0..N-1, in any array order.
OrderArrangements(n) ==
  {f \in [1..n -> 0..(n - 1)] : \A i, j \in 1..n : f[i] = f[j] => i = j}

ChainOf(f) ==
  [i \in DOMAIN f |-> [name |-> EnvName(f[i]), order |-> f[i]]]

Chains(n) == {ChainOf(f) : f \in OrderArrangements(n)}

ChainNames(chain) == {chain[i].name : i \in DOMAIN chain}

\* The chain of the scenarios: develop(0), staging(1), production(2).
ScenarioChain == ChainOf([i \in 1..3 |-> i - 1])

\* Every branch map over the chain's names: an environment is absent, mapped
\* to the empty string, or mapped to the project's branch for it.
BranchMaps(path, names) ==
  UNION {
    {[e \in mapped |-> IF e \in empty THEN EmptyBranch ELSE <<path, e>>] :
        empty \in SUBSET mapped} : mapped \in SUBSET names}

FullBranchMap(path, names) == [e \in names |-> <<path, e>>]

Project(path, branchMap) ==
  [externalId |-> ExternalIdOf(path), name |-> path, fullPath |-> path,
   branchMap |-> branchMap]

\* Project lists of length n whose k-th entry is the k-th project path, with
\* every branch map over the names.
RECURSIVE ProjectLists(_, _)
ProjectLists(n, names) ==
  IF n = 0 THEN {<<>>}
  ELSE {Append(list, Project(ProjectPaths[n], bm)) :
          list \in ProjectLists(n - 1, names),
          bm \in BranchMaps(ProjectPaths[n], names)}

FullyMappedList(n, names) ==
  [k \in 1..n |-> Project(ProjectPaths[k], FullBranchMap(ProjectPaths[k], names))]

Directions == {"release", "backport"}

\* Nothing has been sent to the host and no call is in progress.
NoCall ==
  /\ pairs = <<>> /\ title = "" /\ description = ""
  /\ idx = 0 /\ pc = "idle" /\ found = NoIid
  /\ results = <<>> /\ requests = <<>> /\ rerun = FALSE
  /\ awaiting = FALSE /\ inflight = {}

ExecIdle ==
  /\ mrs = {}
  /\ NoCall

\* No run of a command is modelled.
NoOptions == [dryRun |-> FALSE, token |-> TRUE, projects |-> <<>>]

CommandIdle == options = NoOptions /\ cmd = "none"

\* No run of the status command is modelled.
StatusIdle ==
  /\ stype = "undefined" /\ envPairs = <<>>
  /\ si = 0 /\ sj = 0 /\ spc = "none"
  /\ openMRs = <<>> /\ warnings = <<>>

\* A record without keys: {}.
NoEntries == [key \in {} |-> key]

\* The registry is not part of what is modelled: no project, no group.
NoOperation == [op |-> "none", name |-> "", fullPath |-> "", threw |-> FALSE]

StoreIdle ==
  /\ cfgProjects = NoEntries /\ cfgGroups = NoEntries
  /\ cfgLast = NoOperation

\* The contents of the configuration file: state "json" with the fields of
\* the object it holds, "absent" when there is no file, "corrupt" when the
\* file is not JSON.  groups is the list of the object's entries, in key order.
File(state, envs, groups, registry) ==
  [state |-> state, environments |-> envs, groups |-> groups,
   projects |-> registry]

Json(envs, groups, registry) == File("json", envs, groups, registry)

NoFile == File("absent", <<>>, <<>>, NoEntries)

CorruptFile == File("corrupt", <<>>, <<>>, NoEntries)

NoBackup == [written |-> FALSE, config |-> NoFile]

\* A parsed JSON value with the traits validateConfig looks at.
Value(object, isArray, envs, groupsOk, projectsOk) ==
  [object |-> object, isArray |-> isArray, environments |-> envs,
   groupsOk |-> groupsOk, projectsOk |-> projectsOk]

NoGiven ==
  [readable |-> FALSE, json |-> FALSE,
   value |-> Value(FALSE, FALSE, <<>>, FALSE, FALSE)]

NoRun == [cmd |-> "none", loads |-> 0]

\* No command on the configuration file is modelled.
FileIdle ==
  /\ stored = NoFile /\ origin = NoFile /\ loaded = NoFile
  /\ given = NoGiven /\ backup = NoBackup
  /\ fpc = "none" /\ ran = NoRun

NoSub == [flow |-> "none", end |-> "", source |-> ""]

\* No interactive menu is modelled.
MenuIdle == mpc = "none" /\ action = "none" /\ sub = NoSub

\* No run of the multi-project add flow.
NoAddRun ==
  [ran |-> FALSE, before |-> [projects |-> NoEntries, groups |-> NoEntries],
   saved |-> {}, failed |-> {}]

AddIdle == addRun = NoAddRun

\* readCache() returning null, and no fetch so far.
NoCache == [some |-> FALSE, latestVersion |-> "", checkedAt |-> 0]

NoCheck ==
  [called |-> FALSE, at |-> 0, before |-> NoCache, since |-> NoCache,
   fetched |-> "none", currentVersion |-> "", latestVersion |-> "",
   updateAvailable |-> FALSE, cached |-> FALSE]

\* No version check is modelled.
VersionIdle ==
  /\ now = 0 /\ elapses = 0 /\ cache = NoCache /\ lastFetch = NoCache
  /\ vresult = NoCheck

LaterIdle == FileIdle /\ MenuIdle /\ AddIdle /\ VersionIdle

\* Any valid chain with fully mapped projects, or the scenario's environments
\* (in any array order) with any branch maps.
InitResolve ==
  /\ ExecIdle
  /\ CommandIdle
  /\ StatusIdle
  /\ StoreIdle
  /\ LaterIdle
  /\ rpc = "call"
  /\ resolved = Returned(<<>>)
  /\ direction \in Directions
  /\ \/ \E n \in 0..MaxEnvs :
          /\ config \in {[environments |-> c] : c \in Chains(n)}
          /\ sourceEnvName \in ChainNames(config.environments) \cup {UnknownEnvName}
          /\ \E m \in 0..MaxProjects :
               projects = FullyMappedList(m, ChainNames(config.environments))
     \/ /\ config \in {[environments |-> c] : c \in Chains(Len(ScenarioChain))}
        /\ sourceEnvName \in ChainNames(ScenarioChain) \cup {UnknownEnvName}
        /\ \E m \in 0..MaxProjects :
             projects \in ProjectLists(m, ChainNames(ScenarioChain))

\* const pairs = resolveBranchPairs(config, sourceEnv, direction, selectedProjects)
CallResolve ==
  /\ rpc = "call"
  /\ resolved' = resolveBranchPairs(config, sourceEnvName, direction, projects)
  /\ rpc' = "done"
  /\ UNCHANGED <<config, sourceEnvName, direction, projects>>
  /\ UNCHANGED <<execVars, commandVars, statusVars, storeVars, laterVars>>

NextResolve == CallResolve

SpecResolve == InitResolve /\ [][NextResolve]_vars

-----------------------------------------------------------------------------
(* gitlab/client.ts: the merge-request requests and the host's answers *)

\* The description argument when the caller gives none (undefined).
NoDescription == "undefined"

Titles == {"Release 1", "Release 2"}

Descriptions == {NoDescription, "notes"}

\* What a create request can fail with, other than the 409 conflict.
CreateFaults == {"Request failed with status code 403"}

\* What the lookup query can fail with (urql reports it in `error`).
LookupFaults == {"query failed"}

\* What the update mutation can fail with (mutRes.error.message).
UpdateFaults == {"mutation failed"}

NoFault == "none"

\* The open merge requests of one project between two branches.  The host
\* knows a project by its numeric id and by its full path.
OpenById(host, projectExternalId, sourceBranch, targetBranch) ==
  {m \in host : /\ m.projectId = projectExternalId
                /\ m.sourceBranch = sourceBranch
                /\ m.targetBranch = targetBranch}

OpenByPath(host, projectFullPath, sourceBranch, targetBranch) ==
  OpenById(host, ExternalIdOf(projectFullPath), sourceBranch, targetBranch)

\* The iid the host gives a new merge request: an identifier no open request
\* of the project carries (here the branches and a count).
FreshIid(host, projectExternalId, sourceBranch, targetBranch) ==
  LET same == OpenById(host, projectExternalId, sourceBranch, targetBranch)
      n == First({i \in 1..(Cardinality(same) + 1) :
                    \A m \in same : m.iid # <<sourceBranch, targetBranch, i>>})
  IN  <<sourceBranch, targetBranch, n>>

Threw(message, host) ==
  [threw |-> TRUE, message |-> message, iid |-> NoIid, host |-> host]

Answered(iid, host) == [threw |-> FALSE, message |-> "", iid |-> iid, host |-> host]

\* A host that opens a second request between the same branches.
createMergeRequestIgnoringConflict(host, projectExternalId, t, sourceBranch, targetBranch, d, fault) ==
  IF fault # NoFault THEN Threw(fault, host)
  ELSE Answered(FreshIid(host, projectExternalId, sourceBranch, targetBranch),
         host \cup {[iid |-> FreshIid(host, projectExternalId, sourceBranch, targetBranch),
                     projectId |-> projectExternalId,
                     sourceBranch |-> sourceBranch, targetBranch |-> targetBranch,
                     title |-> t, description |-> d]})

\* GitlabClient.createMergeRequest: POST /projects/:id/merge_requests.  The
\* host answers 409 when an open request between the branches exists, which
\* the client rethrows as MR_ALREADY_EXISTS; any other failure is rethrown as
\* it is.
createMergeRequest(host, projectExternalId, t, sourceBranch, targetBranch, d, fault) ==
  IF fault # NoFault THEN Threw(fault, host)
  ELSE IF OpenById(host, projectExternalId, sourceBranch, targetBranch) # {}
    THEN Threw("MR_ALREADY_EXISTS", host)
  ELSE Answered(FreshIid(host, projectExternalId, sourceBranch, targetBranch),
         host \cup {[iid |-> FreshIid(host, projectExternalId, sourceBranch, targetBranch),
                     projectId |-> projectExternalId,
                     sourceBranch |-> sourceBranch, targetBranch |-> targetBranch,
                     title |-> t, description |-> d]})

\* The body of the create request.
CreateBody(t, sourceBranch, targetBranch, d) ==
  [title |-> t, description |-> d,
   source_branch |-> sourceBranch, target_branch |-> targetBranch]

\* GitlabClient.updateMergeRequest, first request: the edges of the query
\* for opened requests between the branches.  The query's error is not read:
\* a failed query has no data, hence no edges.
LookupEdges(host, projectFullPath, sourceBranch, targetBranch, fault) ==
  IF fault # NoFault THEN {}
  ELSE OpenByPath(host, projectFullPath, sourceBranch, targetBranch)

\* Variables of an update that carries the description as well.
UpdateVariablesWithDescription(projectFullPath, iid, t, d) ==
  IF d = NoDescription
    THEN [fullPath |-> projectFullPath, iid |-> iid, title |-> t]
    ELSE [fullPath |-> projectFullPath, iid |-> iid, title |-> t, description |-> d]

\* GitlabClient.updateMergeRequest, second request: the variables of the
\* updateProjectMergeRequest mutation.
UpdateVariables(projectFullPath, iid, t, d) ==
  [fullPath |-> projectFullPath, iid |-> iid, title |-> t]

\* mergeRequestUpdate on the host: the fields the input names are replaced.
ApplyUpdate(host, variables) ==
  {IF m.projectId = ExternalIdOf(variables.fullPath) /\ m.iid = variables.iid
     THEN [m EXCEPT !.title = variables.title,
                    !.description = IF "description" \in DOMAIN variables
                                      THEN variables.description ELSE @]
     ELSE m : m \in host}

\* The mutation's outcome: mutRes.error is rethrown as "Failed to update MR".
updateMutation(host, variables, fault) ==
  IF fault # NoFault THEN Threw(<<"Failed to update MR", fault>>, host)
  ELSE Answered(variables.iid, ApplyUpdate(host, variables))

-----------------------------------------------------------------------------
(* services/flowExecution.ts: executeMergeRequests *)

Result(pair, status, mrUrl, error) ==
  [project |-> pair.project, sourceBranch |-> pair.sourceBranch,
   targetBranch |-> pair.targetBranch, status |-> status,
   mrUrl |-> mrUrl, error |-> error]

\* What the loop body does with an answer: the results it pushes and where it
\* goes next ("advance": the next pair).
Outcome(pushed, next) == [push |-> pushed, next |-> next]

\* A handler that records nothing for a failed create.
AfterCreateDroppingFailures(pair, answer) ==
  IF ~answer.threw
    THEN Outcome(<<Result(pair, "created", answer.iid, "")>>, "advance")
  ELSE IF answer.message = "MR_ALREADY_EXISTS"
    THEN Outcome(<<>>, "lookup")
  ELSE Outcome(<<>>, "advance")

\* A handler without the update path: a conflict is a failure.
AfterCreateWithoutUpdatePath(pair, answer) ==
  IF ~answer.threw
    THEN Outcome(<<Result(pair, "created", answer.iid, "")>>, "advance")
  ELSE Outcome(<<Result(pair, "failed", NoIid, answer.message)>>, "advance")

\* A handler that enters the update path on every create error.
AfterCreateUpdatingOnAnyError(pair, answer) ==
  IF ~answer.threw
    THEN Outcome(<<Result(pair, "created", answer.iid, "")>>, "advance")
  ELSE Outcome(<<>>, "lookup")

\* Lines 64-78 and 79-80, 108-116: the create's try and catch.
AfterCreate(pair, answer) ==
  IF ~answer.threw
    THEN Outcome(<<Result(pair, "created", answer.iid, "")>>, "advance")
  ELSE IF answer.message = "MR_ALREADY_EXISTS"
    THEN Outcome(<<>>, "lookup")
  ELSE Outcome(<<Result(pair, "failed", NoIid, answer.message)>>, "advance")

\* A handler that creates again when the lookup finds nothing.
AfterLookupRecreating(pair, edges) ==
  IF edges = {} THEN Outcome(<<>>, "create") ELSE Outcome(<<>>, "update")

\* client.ts lines 199-202 and the inner catch, lines 96-107: no edge throws
\* NO_MR_FOUND, which becomes the pair's failed result.
AfterLookup(pair, edges) ==
  IF edges = {}
    THEN Outcome(<<Result(pair, "failed", NoIid, "NO_MR_FOUND")>>, "advance")
    ELSE Outcome(<<>>, "update")

\* Lines 89-95 and 96-107: the update's try and catch.
AfterUpdate(pair, answer) ==
  IF ~answer.threw
    THEN Outcome(<<Result(pair, "updated", answer.iid, "")>>, "advance")
    ELSE Outcome(<<Result(pair, "failed", NoIid, answer.message)>>, "advance")

\* The loop goes on as the outcome says.
Continue(out) ==
  /\ results' = results \o out.push
  /\ IF out.next = "advance"
       THEN /\ idx' = idx + 1
            /\ pc' = IF idx + 1 > Len(pairs) THEN "returned" ELSE "create"
       ELSE /\ idx' = idx
            /\ pc' = out.next

Sent(op, body, answer) == [op |-> op, pair |-> idx, body |-> body, answer |-> answer]

\* The request the loop sends at its position: its kind, the position of its
\* pair, and its number among the requests of the call.
InFlight(op) ==
  [op |-> op, pair |-> idx, n |-> Len(requests) + Cardinality(inflight) + 1]

\* A loop that sends the request and goes on to the next pair without
\* waiting for the answer.
NoAwait(request) ==
  /\ inflight' = inflight \cup {request}
  /\ IF idx < Len(pairs)
       THEN awaiting' = FALSE /\ idx' = idx + 1
       ELSE awaiting' = TRUE /\ idx' = idx

\* await client.<request>: the request is sent and the call is suspended until
\* the answer is there.
Await(request) ==
  /\ inflight' = inflight \cup {request}
  /\ awaiting' = TRUE
  /\ idx' = idx

\* The loop sends the request of its position.
Issue ==
  /\ pc \in {"create", "lookup", "update"}
  /\ ~awaiting
  /\ Await(InFlight(pc))
  /\ UNCHANGED <<mrs, pairs, title, description, pc, found, results, requests, rerun>>
  /\ UNCHANGED <<resolveVars, commandVars, statusVars, storeVars, laterVars>>

\* The awaited request is answered: the call resumes.
Settle(op) ==
  /\ awaiting
  /\ \E request \in inflight :
       /\ request.op = op /\ request.pair = idx
       /\ inflight' = inflight \ {request}
  /\ awaiting' = FALSE

\* The answer to client.createMergeRequest(...) for the pair at idx, and its
\* handling.
CreateStep(faults) ==
  /\ pc = "create"
  /\ Settle("create")
  /\ \E fault \in {NoFault} \cup faults :
       LET pair == pairs[idx]
           answer == createMergeRequest(mrs, pair.project.externalId, title,
                       pair.sourceBranch, pair.targetBranch, description, fault)
       IN  /\ mrs' = answer.host
           /\ requests' = Append(requests,
                Sent("create",
                     CreateBody(title, pair.sourceBranch, pair.targetBranch, description),
                     IF answer.threw THEN answer.message ELSE "created"))
           /\ found' = NoIid
           /\ Continue(AfterCreate(pair, answer))
  /\ UNCHANGED <<pairs, title, description, rerun>>
  /\ UNCHANGED <<resolveVars, commandVars, statusVars, storeVars, laterVars>>

\* client.updateMergeRequest(...), the answer to its query: the lookup of the
\* open request, whose first edge is the request to update.
LookupStep(faults) ==
  /\ pc = "lookup"
  /\ Settle("lookup")
  /\ \E fault \in {NoFault} \cup faults :
       LET pair == pairs[idx]
           edges == LookupEdges(mrs, pair.project.fullPath, pair.sourceBranch,
                                pair.targetBranch, fault)
       IN  /\ requests' = Append(requests,
                Sent("lookup",
                     [fullPath |-> pair.project.fullPath,
                      sourceBranches |-> <<pair.sourceBranch>>,
                      targetBranches |-> <<pair.targetBranch>>],
                     IF edges = {} THEN "none" ELSE "found"))
           /\ IF edges = {} THEN found' = NoIid ELSE \E m \in edges : found' = m.iid
           /\ Continue(AfterLookup(pair, edges))
  /\ UNCHANGED <<mrs, pairs, title, description, rerun>>
  /\ UNCHANGED <<resolveVars, commandVars, statusVars, storeVars, laterVars>>

\* client.updateMergeRequest, the answer to its mutation, and the handling of
\* what the method returns or throws.
UpdateStep(faults) ==
  /\ pc = "update"
  /\ Settle("update")
  /\ \E fault \in {NoFault} \cup faults :
       LET pair == pairs[idx]
           variables == UpdateVariables(pair.project.fullPath, found, title, description)
           answer == updateMutation(mrs, variables, fault)
       IN  /\ mrs' = answer.host
           /\ requests' = Append(requests,
                Sent("update", variables,
                     IF answer.threw THEN "error" ELSE "updated"))
           /\ found' = NoIid
           /\ Continue(AfterUpdate(pair, answer))
  /\ UNCHANGED <<pairs, title, description, rerun>>
  /\ UNCHANGED <<resolveVars, commandVars, statusVars, storeVars, laterVars>>

\* Someone merges or closes an open merge request on the host.
ExternalClose ==
  /\ \E m \in mrs : mrs' = mrs \ {m}
  /\ UNCHANGED <<pairs, title, description, idx, pc, found, results, requests, rerun,
                 awaiting, inflight>>
  /\ UNCHANGED <<resolveVars, commandVars, statusVars, storeVars, laterVars>>

-----------------------------------------------------------------------------
(* Callers of executeMergeRequests: runRelease, runBackport *)

\* Two environments and two registered projects mapped for both.
ExecConfig == [environments |-> SubSeq(ScenarioChain, 1, Len(ScenarioChain) - 1)]

ExecNames == ChainNames(ExecConfig.environments)

ExecProjects ==
  {Project(path, FullBranchMap(path, ExecNames)) :
     path \in {ProjectPaths[1], ProjectPaths[Len(ExecConfig.environments)]}}

\* --projects a,b,...: any list of registered projects, repeats included.
SelectedLists == UNION {[1..n -> ExecProjects] : n \in 0..MaxPairs}

\* The pair lists `release develop --projects ...` hands over: what
\* resolveBranchPairs returns.
PairLists ==
  {resolveBranchPairs(ExecConfig, EnvName(0), "release", selected).pairs :
     selected \in SelectedLists}

\* A backport request of the first project, opened by hand on the host.
ForeignRequest ==
  LET path == ProjectPaths[1]
      sourceBranch == <<path, EnvName(1)>>
      targetBranch == <<path, EnvName(0)>>
  IN  [iid |-> FreshIid({}, ExternalIdOf(path), sourceBranch, targetBranch),
       projectId |-> ExternalIdOf(path),
       sourceBranch |-> sourceBranch, targetBranch |-> targetBranch,
       title |-> "Backport", description |-> "by hand"]

\* executeMergeRequests(client, ps, t, d) is entered.
StartCall(ps, t, d) ==
  /\ pairs' = ps /\ title' = t /\ description' = d
  /\ rerun' = (pc = "returned" /\ ps = pairs /\ t = title)
  /\ results' = <<>>
  /\ requests' = <<>>
  /\ awaiting' = FALSE /\ inflight' = {}
  /\ found' = NoIid
  /\ idx' = 1
  /\ pc' = IF ps = <<>> THEN "returned" ELSE "create"
  /\ UNCHANGED mrs
  /\ UNCHANGED resolveVars

\* A run of release or backport reaches its call of executeMergeRequests.
Call ==
  /\ pc = "idle"
  /\ \E ps \in PairLists, t \in Titles, d \in Descriptions : StartCall(ps, t, d)
  /\ UNCHANGED <<commandVars, statusVars, storeVars, laterVars>>

\* The run prints the results and ends.
Exit ==
  /\ pc = "returned"
  /\ pairs' = <<>> /\ title' = "" /\ description' = ""
  /\ idx' = 0 /\ pc' = "idle" /\ found' = NoIid
  /\ results' = <<>> /\ requests' = <<>> /\ rerun' = FALSE
  /\ awaiting' = FALSE /\ inflight' = {}
  /\ UNCHANGED mrs
  /\ UNCHANGED <<resolveVars, commandVars, statusVars, storeVars, laterVars>>

\* The same run again, right after it returned: identical pairs and title.
Rerun ==
  /\ pc = "returned"
  /\ \E d \in Descriptions : StartCall(pairs, title, d)
  /\ UNCHANGED <<commandVars, statusVars, storeVars, laterVars>>

ResolveIdle ==
  /\ config = ExecConfig
  /\ sourceEnvName = UnknownEnvName
  /\ direction = "release"
  /\ projects = <<>>
  /\ resolved = Returned(<<>>)
  /\ rpc = "done"

\* No call yet; the host holds no request, or one opened by hand.
InitExec ==
  /\ ResolveIdle
  /\ CommandIdle
  /\ StatusIdle
  /\ StoreIdle
  /\ LaterIdle
  /\ NoCall
  /\ mrs \in {{}, {ForeignRequest}}

\* Any runs against a host that may fail a request, while others close
\* merge requests.
NextExec ==
  \/ Call
  \/ Exit
  \/ Issue
  \/ CreateStep(CreateFaults)
  \/ LookupStep(LookupFaults)
  \/ UpdateStep(UpdateFaults)
  \/ ExternalClose

SpecExec == InitExec /\ [][NextExec]_vars

\* A run and its repetitions against a host that accepts a create when no
\* open request exists between the branches and answers 409 otherwise, and
\* that nobody else changes.
NextRerun ==
  \/ Call
  \/ Rerun
  \/ Issue
  \/ CreateStep({})
  \/ LookupStep({})
  \/ UpdateStep({})

SpecRerun == InitExec /\ [][NextRerun]_vars

-----------------------------------------------------------------------------
(* commands/release.ts, commands/backport.ts: one run of the command *)

\* What a request fails with when the host cannot be reached (an axios error
\* without a response).
TransportFaults == {"connect ECONNREFUSED"}

\* Where the resolution part of the command leaves the run, and with what.
CommandEnd(end, out) == [end |-> end, resolved |-> out]

\* A command that reports a missing mapping and still hands over the pairs of
\* the projects that are mapped.
runResolutionLazily(cfg, srcName, dir, projs) ==
  IF TargetEnvironment(cfg, srcName, dir) = NoEnvironment
    THEN CommandEnd("error", Thrown("NoAdjacentEnvironment"))
  ELSE
    LET out == resolveBranchPairs(cfg, srcName, dir, projs)
        some == ResolveLoopSkipping(projs, 1, srcName,
                  TargetEnvironment(cfg, srcName, dir).name, <<>>)
    IN  IF out.kind = "throw"
          THEN CommandEnd(IF some.pairs = <<>> THEN "error" ELSE "resolved",
                          [out EXCEPT !.pairs = some.pairs])
        ELSE IF out.pairs = <<>> THEN CommandEnd("noProjects", out)
        ELSE CommandEnd("resolved", out)

\* runBackport lines 66-116, runRelease lines 313-366: no adjacent environment
\* (an unknown source has none) prints the error and returns; a throw of
\* resolveBranchPairs ends the run; no pair prints "No projects" and returns.
runResolution(cfg, srcName, dir, projs) ==
  IF TargetEnvironment(cfg, srcName, dir) = NoEnvironment
    THEN CommandEnd("error", Thrown("NoAdjacentEnvironment"))
  ELSE
    LET out == resolveBranchPairs(cfg, srcName, dir, projs)
    IN  IF out.kind = "throw" THEN CommandEnd("error", out)
        ELSE IF out.pairs = <<>> THEN CommandEnd("noProjects", out)
        ELSE CommandEnd("resolved", out)

\* The branch maps of a registered project: mapped for every environment, or
\* with one mapping empty, or with one absent.
CommandBranchMaps(path) ==
  LET names == ChainNames(ScenarioChain)
      full == FullBranchMap(path, names)
  IN  {full,
       [full EXCEPT ![EnvName(1)] = EmptyBranch],
       [e \in names \ {EnvName(2)} |-> full[e]]}

RECURSIVE CommandProjectLists(_)
CommandProjectLists(n) ==
  IF n = 0 THEN {<<>>}
  ELSE {Append(list, Project(ProjectPaths[n], bm)) :
          list \in CommandProjectLists(n - 1),
          bm \in CommandBranchMaps(ProjectPaths[n])}

\* The projects GitLab knows: the first MaxProjects paths.
RegistryPaths == {ProjectPaths[k] : k \in 1..MaxProjects}

\* A path that is in no registry: a misspelt --projects entry.
UnregisteredPath == "grp/typo"

\* config.projects: every registry path registered, with one of its branch maps.
Registries ==
  {registry \in [RegistryPaths -> UNION {{Project(path, bm) :
                                            bm \in CommandBranchMaps(path)} :
                                          path \in RegistryPaths}] :
     \A path \in RegistryPaths : registry[path].fullPath = path}

\* options.projects.split(','), or the projectPaths of the --group: up to
\* MaxProjects distinct paths, registered or not.
RECURSIVE NamedPaths(_)
NamedPaths(n) ==
  IF n = 0 THEN {<<>>}
  ELSE NamedPaths(n - 1) \cup
       UNION {{Append(list, path) :
                 path \in (RegistryPaths \cup {UnregisteredPath}) \
                          {list[i] : i \in DOMAIN list}} :
              list \in {l \in NamedPaths(n - 1) : Len(l) = n - 1}}

\* paths.map((fp) => config.projects[fp]).filter((p) => p !== undefined)
selectedProjects(registry, paths) ==
  LET known == SelectSeq(paths, LAMBDA fp : fp \in DOMAIN registry)
  IN  [i \in DOMAIN known |-> registry[known[i]]]

\* The run starts: configuration loaded, arguments and options read.
InitCommand ==
  /\ NoCall
  /\ StatusIdle
  /\ cfgProjects \in Registries
  /\ cfgGroups = NoEntries
  /\ cfgLast = NoOperation
  /\ LaterIdle
  /\ mrs \in {{}, {ForeignRequest}}
  /\ config = [environments |-> ScenarioChain]
  /\ sourceEnvName \in ChainNames(ScenarioChain) \cup {UnknownEnvName}
  /\ direction \in Directions
  /\ projects = <<>>
  /\ resolved = Returned(<<>>)
  /\ rpc = "call"
  /\ options \in [dryRun : BOOLEAN, token : BOOLEAN,
                   projects : NamedPaths(MaxProjects)]
  /\ cmd = "start"

\* The run up to and including resolveBranchPairs and the test for no pairs:
\* the projects selected are those of the paths named that are registered.
CommandResolve ==
  /\ cmd = "start"
  /\ projects' = selectedProjects(cfgProjects, options.projects)
  /\ LET run == runResolution(config, sourceEnvName, direction, projects')
     IN  /\ cmd' = run.end
         /\ resolved' = run.resolved
  /\ rpc' = "done"
  /\ UNCHANGED <<config, sourceEnvName, direction, options>>
  /\ UNCHANGED <<execVars, statusVars, storeVars, laterVars>>

\* A preview that does not look at --dry-run.
afterPreviewIgnoringDryRun(opts) ==
  IF ~opts.token THEN "credential" ELSE "executing"

\* runBackport lines 137-150: after the preview --dry-run returns;
\* createGitlabClient throws without GITLAB_TOKEN; otherwise
\* executeMergeRequests is called.
afterPreview(opts) ==
  IF opts.dryRun THEN "dryRun"
  ELSE IF ~opts.token THEN "credential"
  ELSE "executing"

CommandExecute ==
  /\ cmd = "resolved"
  /\ cmd' = afterPreview(options)
  /\ IF cmd' = "executing"
       THEN \E t \in Titles, d \in Descriptions : StartCall(resolved.pairs, t, d)
     ELSE UNCHANGED <<resolveVars, execVars>>
  /\ UNCHANGED <<options, statusVars, storeVars, laterVars>>

\* printResults(results): the run ends.
CommandExit ==
  /\ cmd = "executing"
  /\ pc = "returned"
  /\ cmd' = "printed"
  /\ UNCHANGED <<resolveVars, execVars, options, statusVars, storeVars, laterVars>>

NextCommand ==
  \/ CommandResolve
  \/ CommandExecute
  \/ Issue
  \/ CreateStep(CreateFaults \cup TransportFaults)
  \/ LookupStep(LookupFaults)
  \/ UpdateStep(UpdateFaults)
  \/ CommandExit

SpecCommand == InitCommand /\ [][NextCommand]_vars

-----------------------------------------------------------------------------
(* commands/status.ts: buildEnvPairs *)

\* JavaScript's undefined, where an option (a string) is expected.
NoOption == "undefined"

\* Truthiness of a string option: undefined and "" are falsy.
Given(option) == option \notin {NoOption, ""}

\* An array left in the order the configuration holds it.
NotSorted(envs) == envs

\* [...environments].sort((a, b) => a.order - b.order): ascending by order,
\* equal orders in array order.
RECURSIVE SortByOrder(_)
SortByOrder(envs) ==
  IF envs = <<>> THEN <<>>
  ELSE
    LET least == First({i \in DOMAIN envs :
                          \A j \in DOMAIN envs : envs[i].order <= envs[j].order})
    IN  <<envs[least]>> \o
        SortByOrder(SubSeq(envs, 1, least - 1) \o SubSeq(envs, least + 1, Len(envs)))

EnvPair(sourceEnv, targetEnv, dir) ==
  [sourceEnv |-> sourceEnv, targetEnv |-> targetEnv, direction |-> dir]

\* for (let i = 0; i < sorted.length - 1; i++) push (sorted[i], sorted[i + 1])
ReleasePairs(sorted) ==
  [k \in 1..(Len(sorted) - 1) |-> EnvPair(sorted[k], sorted[k + 1], "release")]

\* for (let i = sorted.length - 1; i > 0; i--) push (sorted[i], sorted[i - 1])
BackportPairs(sorted) ==
  [k \in 1..(Len(sorted) - 1) |->
     EnvPair(sorted[Len(sorted) - k + 1], sorted[Len(sorted) - k], "backport")]

\* A filter that keeps the pairs the environment is either end of.
FromEitherEnd(prs, srcName) ==
  SelectSeq(prs, LAMBDA p : p.sourceEnv.name = srcName \/ p.targetEnv.name = srcName)

\* pairs.filter((p) => p.sourceEnv.name === sourceEnvName)
FromSource(prs, srcName) ==
  SelectSeq(prs, LAMBDA p : p.sourceEnv.name = srcName)

buildEnvPairs(environments, type, srcName) ==
  LET sorted == SortByOrder(environments)
      release == IF ~Given(type) \/ type = "release" THEN ReleasePairs(sorted) ELSE <<>>
      backport == IF ~Given(type) \/ type = "backport" THEN BackportPairs(sorted) ELSE <<>>
  IN  IF Given(srcName)
        THEN FromSource(release \o backport, srcName)
        ELSE release \o backport

\* The values of --type that reach buildEnvPairs, and of --source-env.
TypeOptions == {NoOption, "", "release", "backport"}

SourceOptions(names) == names \cup {NoOption, "", UnknownEnvName}

\* Any accepted chain of up to MaxEnvs environments, with any filters.
InitEnvPairs ==
  /\ ExecIdle
  /\ CommandIdle
  /\ StoreIdle
  /\ LaterIdle
  /\ \E n \in 0..MaxEnvs : config \in {[environments |-> c] : c \in Chains(n)}
  /\ sourceEnvName \in SourceOptions(ChainNames(config.environments))
  /\ stype \in TypeOptions
  /\ direction = "release" /\ projects = <<>>
  /\ resolved = Returned(<<>>) /\ rpc = "done"
  /\ envPairs = <<>> /\ si = 0 /\ sj = 0 /\ spc = "build"
  /\ openMRs = <<>> /\ warnings = <<>>

\* const envPairs = buildEnvPairs(config.environments, options.type, options.sourceEnv)
CallBuildEnvPairs ==
  /\ spc = "build"
  /\ envPairs' = buildEnvPairs(config.environments, stype, sourceEnvName)
  /\ spc' = "built"
  /\ UNCHANGED <<stype, si, sj, openMRs, warnings>>
  /\ UNCHANGED <<resolveVars, execVars, commandVars, storeVars, laterVars>>

NextEnvPairs == CallBuildEnvPairs

SpecEnvPairs == InitEnvPairs /\ [][NextEnvPairs]_vars

-----------------------------------------------------------------------------
(* commands/status.ts: runStatus *)

\* A --type the command rejects.
InvalidType == "hotfix"

\* How a query can fail: the client reads no error, so a failed query has no
\* data and the method returns no node ("ignored"); or the promise rejects
\* and the method throws ("thrown").
StatusFaults == {"ignored", "thrown"}

\* The open merge requests the host may hold when the command runs: a
\* backport and a release request of the first project, a release request of
\* the second.
OpenRequest(path, sourceOrder, targetOrder) ==
  LET sourceBranch == <<path, EnvName(sourceOrder)>>
      targetBranch == <<path, EnvName(targetOrder)>>
  IN  [iid |-> FreshIid({}, ExternalIdOf(path), sourceBranch, targetBranch),
       projectId |-> ExternalIdOf(path),
       sourceBranch |-> sourceBranch, targetBranch |-> targetBranch,
       title |-> "Release 1", description |-> NoDescription]

StatusRequests ==
  {ForeignRequest, OpenRequest(ProjectPaths[1], 0, 1), OpenRequest(ProjectPaths[2], 1, 2)}

\* edges.filter(...).map((e) => e.node): the nodes as a list (the host holds
\* at most one open request between two branches of a project).
RECURSIVE Nodes(_)
Nodes(edges) ==
  IF edges = {} THEN <<>>
  ELSE LET m == CHOOSE e \in edges : TRUE IN <<m>> \o Nodes(edges \ {m})

QueryAnswer(threw, nodes, host) == [threw |-> threw, nodes |-> nodes, host |-> host]

\* A query that closes what it finds.
getOpenMergeRequestsClosing(host, projectFullPath, sourceBranch, targetBranch, fault) ==
  IF fault = "thrown" THEN QueryAnswer(TRUE, <<>>, host)
  ELSE IF fault = "ignored" THEN QueryAnswer(FALSE, <<>>, host)
  ELSE QueryAnswer(FALSE,
         Nodes(OpenByPath(host, projectFullPath, sourceBranch, targetBranch)),
         host \ OpenByPath(host, projectFullPath, sourceBranch, targetBranch))

\* GitlabClient.getOpenMergeRequests: the query for opened requests between
\* the branches; the host is left as it is.
getOpenMergeRequests(host, projectFullPath, sourceBranch, targetBranch, fault) ==
  IF fault = "thrown" THEN QueryAnswer(TRUE, <<>>, host)
  ELSE IF fault = "ignored" THEN QueryAnswer(FALSE, <<>>, host)
  ELSE QueryAnswer(FALSE,
         Nodes(OpenByPath(host, projectFullPath, sourceBranch, targetBranch)),
         host)

\* Where the scan is after the combination (i, j): the next pair, the next
\* project, or the end of both loops.
ScanNext(i, j) ==
  IF j < Len(envPairs) THEN [si |-> i, sj |-> j + 1, spc |-> "scan"]
  ELSE IF i < Len(projects) THEN [si |-> i + 1, sj |-> 1, spc |-> "scan"]
  ELSE [si |-> i, sj |-> j, spc |-> "scanned"]

\* A scan that ends at the combination.
ScanStop(i, j) == [si |-> i, sj |-> j, spc |-> "scanned"]

\* A scan that a missing mapping ends.
OnMissingMappingStop(i, j) == ScanStop(i, j)

\* if (!sourceBranch || !targetBranch) continue;
OnMissingMapping(i, j) == ScanNext(i, j)

\* A scan that a failed query ends.
OnQueryErrorStop(i, j) == ScanStop(i, j)

\* catch (err) { spinner.warn(...) }: the loop goes on.
OnQueryError(i, j) == ScanNext(i, j)

\* The record pushed for a node.
OpenMergeRequest(project, pair, sourceBranch, targetBranch, node) ==
  [project |-> project,
   sourceEnv |-> pair.sourceEnv.name, targetEnv |-> pair.targetEnv.name,
   sourceBranch |-> sourceBranch, targetBranch |-> targetBranch,
   direction |-> pair.direction, mrId |-> node.iid]

\* The failed queries of the run so far.
FailedQueries ==
  {k \in DOMAIN requests : requests[k].answer \in StatusFaults}

\* The run starts: configuration loaded, options read.
InitStatus ==
  /\ NoCall
  /\ StoreIdle
  /\ LaterIdle
  /\ cmd = "none"
  /\ options \in {[dryRun |-> FALSE, token |-> tk] : tk \in BOOLEAN}
  /\ mrs \in {{}, StatusRequests}
  /\ \E n \in 0..Len(ScenarioChain) :
       config = [environments |-> SubSeq(ScenarioChain, 1, n)]
  /\ sourceEnvName \in SourceOptions(ChainNames(config.environments))
  /\ stype \in TypeOptions \cup {InvalidType}
  /\ \E n \in 0..MaxProjects : projects \in CommandProjectLists(n)
  /\ direction = "release"
  /\ resolved = Returned(<<>>) /\ rpc = "done"
  /\ envPairs = <<>> /\ si = 0 /\ sj = 0 /\ spc = "start"
  /\ openMRs = <<>> /\ warnings = <<>>

\* runStatus lines 74-147: the tests that end the run, buildEnvPairs,
\* createGitlabClient.
StatusStart ==
  /\ spc = "start"
  /\ LET built == buildEnvPairs(config.environments, stype, sourceEnvName)
     IN  IF config.environments = <<>>
           THEN spc' = "noEnvironments" /\ UNCHANGED <<envPairs, si, sj>>
         ELSE IF Given(stype) /\ stype \notin Directions
           THEN spc' = "invalidType" /\ UNCHANGED <<envPairs, si, sj>>
         ELSE IF Given(sourceEnvName)
                 /\ getEnvironmentByName(config, sourceEnvName) = NoEnvironment
           THEN spc' = "unknownSource" /\ UNCHANGED <<envPairs, si, sj>>
         ELSE IF projects = <<>>
           THEN spc' = "noProjects" /\ UNCHANGED <<envPairs, si, sj>>
         ELSE IF built = <<>>
           THEN spc' = "noPairs" /\ envPairs' = built /\ UNCHANGED <<si, sj>>
         ELSE IF ~options.token
           THEN spc' = "credential" /\ envPairs' = built /\ UNCHANGED <<si, sj>>
         ELSE spc' = "scan" /\ envPairs' = built /\ si' = 1 /\ sj' = 1
  /\ UNCHANGED <<stype, openMRs, warnings>>
  /\ UNCHANGED <<resolveVars, execVars, commandVars, storeVars, laterVars>>

\* One pass of the inner loop, lines 150-182: the combination is skipped, or
\* queried and its nodes recorded, or its query fails.
ScanStep ==
  /\ spc = "scan"
  /\ LET project == projects[si]
         pair == envPairs[sj]
         sourceBranch == BranchOf(project, pair.sourceEnv.name)
         targetBranch == BranchOf(project, pair.targetEnv.name)
     IN  IF Falsy(sourceBranch) \/ Falsy(targetBranch)
           THEN /\ si' = OnMissingMapping(si, sj).si
                /\ sj' = OnMissingMapping(si, sj).sj
                /\ spc' = OnMissingMapping(si, sj).spc
                /\ UNCHANGED <<mrs, requests, openMRs, warnings>>
           ELSE \E fault \in {NoFault} \cup
                              (IF Cardinality(FailedQueries) < MaxFaults
                                 THEN StatusFaults ELSE {}) :
                  LET answer == getOpenMergeRequests(mrs, project.fullPath,
                                  sourceBranch, targetBranch, fault)
                      next == IF answer.threw THEN OnQueryError(si, sj)
                              ELSE ScanNext(si, sj)
                  IN  /\ mrs' = answer.host
                      /\ requests' = Append(requests,
                           [op |-> "query", pair |-> <<si, sj>>,
                            body |-> [fullPath |-> project.fullPath,
                                      sourceBranches |-> <<sourceBranch>>,
                                      targetBranches |-> <<targetBranch>>],
                            answer |-> IF fault # NoFault THEN fault ELSE "nodes",
                            count |-> Len(answer.nodes)])
                      /\ openMRs' = openMRs \o
                           [k \in DOMAIN answer.nodes |->
                              OpenMergeRequest(project, pair, sourceBranch,
                                               targetBranch, answer.nodes[k])]
                      /\ warnings' = IF answer.threw
                                       THEN Append(warnings, project.name)
                                       ELSE warnings
                      /\ si' = next.si /\ sj' = next.sj /\ spc' = next.spc
  /\ UNCHANGED <<stype, envPairs>>
  /\ UNCHANGED <<pairs, title, description, idx, pc, found, results, rerun,
                 awaiting, inflight>>
  /\ UNCHANGED <<resolveVars, commandVars, storeVars, laterVars>>

\* Lines 185-209: the records are printed.
StatusPrint ==
  /\ spc = "scanned"
  /\ spc' = "printed"
  /\ UNCHANGED <<stype, envPairs, si, sj, openMRs, warnings>>
  /\ UNCHANGED <<resolveVars, execVars, commandVars, storeVars, laterVars>>

NextStatus ==
  \/ StatusStart
  \/ ScanStep
  \/ StatusPrint

SpecStatus == InitStatus /\ [][NextStatus]_vars

-----------------------------------------------------------------------------
(* config/manager.ts: the registry of projects and groups *)

GroupNames == {"backend", "frontend"}

Store(ps, gs) == [projects |-> ps, groups |-> gs]

Done(store) == [threw |-> FALSE, store |-> store]

Failed(store) == [threw |-> TRUE, store |-> store]

\* delete record[key]
Without(record, key) == [k \in DOMAIN record \ {key} |-> record[k]]

\* record[key] = value
With(record, key, value) ==
  [k \in DOMAIN record \cup {key} |-> IF k = key THEN value ELSE record[k]]

addGroup(store, name) ==
  IF name \in DOMAIN store.groups THEN Failed(store)
  ELSE Done(Store(store.projects, With(store.groups, name, <<>>)))

\* A removal that takes the group's projects out of the registry as well.
removeGroupWithProjects(store, name) ==
  IF name \notin DOMAIN store.groups THEN Failed(store)
  ELSE Done(Store([k \in {q \in DOMAIN store.projects :
                            \A i \in DOMAIN store.groups[name] :
                              store.groups[name][i] # q} |-> store.projects[k]],
                  Without(store.groups, name)))

removeGroup(store, name) ==
  IF name \notin DOMAIN store.groups THEN Failed(store)
  ELSE Done(Store(store.projects, Without(store.groups, name)))

addProject(store, project) ==
  Done(Store(With(store.projects, project.fullPath, project), store.groups))

\* A removal that leaves the member lists as they are.
removeProjectKeepingMembers(store, fullPath) ==
  Done(Store(Without(store.projects, fullPath), store.groups))

\* delete config.projects[fullPath], and the path filtered out of every
\* group's projectPaths.
removeProject(store, fullPath) ==
  Done(Store(Without(store.projects, fullPath),
             [g \in DOMAIN store.groups |->
                SelectSeq(store.groups[g], LAMBDA member : member # fullPath)]))

addProjectToGroup(store, groupName, fullPath) ==
  IF groupName \notin DOMAIN store.groups THEN Failed(store)
  ELSE IF \E i \in DOMAIN store.groups[groupName] :
            store.groups[groupName][i] = fullPath
    THEN Failed(store)
  ELSE Done(Store(store.projects,
                  With(store.groups, groupName,
                       Append(store.groups[groupName], fullPath))))

\* The configuration as loaded.
Loaded == Store(cfgProjects, cfgGroups)

\* saveConfig(config) after an operation that did not throw; a throw is
\* caught before saveConfig, and the file stays as it was.
Save(outcome, operation) ==
  /\ cfgProjects' = IF outcome.threw THEN cfgProjects ELSE outcome.store.projects
  /\ cfgGroups' = IF outcome.threw THEN cfgGroups ELSE outcome.store.groups
  /\ cfgLast' = [operation EXCEPT !.threw = outcome.threw]

Operation(op, name, fullPath) ==
  [op |-> op, name |-> name, fullPath |-> fullPath, threw |-> FALSE]

\* No group for the project added.
NoGroup == ""

\* A fresh configuration: no project, no group.
InitStore ==
  /\ ExecIdle
  /\ ResolveIdle
  /\ CommandIdle
  /\ StatusIdle
  /\ StoreIdle
  /\ LaterIdle

\* husgit group add <name>
GroupAdd ==
  /\ \E name \in GroupNames :
       Save(addGroup(Loaded, name), Operation("addGroup", name, ""))
  /\ UNCHANGED <<resolveVars, execVars, commandVars, statusVars, laterVars>>

\* husgit group remove <name>: a group that does not exist is reported
\* before removeGroup is reached.
GroupRemove ==
  /\ \E name \in DOMAIN cfgGroups :
       Save(removeGroup(Loaded, name), Operation("removeGroup", name, ""))
  /\ UNCHANGED <<resolveVars, execVars, commandVars, statusVars, laterVars>>

\* husgit group add-project [group]: a project not yet in the registry is
\* added, then assigned to the group given or selected, if any.
ProjectAdd ==
  /\ \E path \in RegistryPaths \ DOMAIN cfgProjects,
        groupName \in DOMAIN cfgGroups \cup {NoGroup} :
       \E branchMap \in CommandBranchMaps(path) :
         LET added == addProject(Loaded, Project(path, branchMap))
             outcome == IF groupName = NoGroup THEN added
                        ELSE addProjectToGroup(added.store, groupName, path)
         IN  Save(outcome,
                  Operation(IF groupName = NoGroup THEN "addProject"
                            ELSE "addProjectToGroup", groupName, path))
  /\ UNCHANGED <<resolveVars, execVars, commandVars, statusVars, laterVars>>

\* husgit project remove <fullPath>: a path that is not registered is
\* reported before removeProject is reached.
ProjectRemove ==
  /\ \E path \in DOMAIN cfgProjects :
       Save(removeProject(Loaded, path), Operation("removeProject", "", path))
  /\ UNCHANGED <<resolveVars, execVars, commandVars, statusVars, laterVars>>

NextStore ==
  \/ GroupAdd
  \/ GroupRemove
  \/ ProjectAdd
  \/ ProjectRemove

SpecStore == InitStore /\ [][NextStore]_vars

-----------------------------------------------------------------------------
(* The configuration file: loadConfig, validateConfig, config set, setup flow *)

\* A group of the old format, { projects: ProjectConfig[] }, and one of the
\* new format, { projectPaths: string[] }.
OldGroup(name, projs) ==
  [name |-> name, shape |-> "projects", projects |-> projs,
   projectPaths |-> <<>>]

NewGroup(name, paths) ==
  [name |-> name, shape |-> "projectPaths", projects |-> <<>>,
   projectPaths |-> paths]

defaultConfig == Json(<<>>, <<>>, NoEntries)

\* projects[project.fullPath] = project, for the projects of one group in
\* order: a later project of the same path replaces an earlier one.
RECURSIVE Registered(_, _, _)
Registered(registry, projs, i) ==
  IF i > Len(projs) THEN registry
  ELSE Registered(With(registry, projs[i].fullPath, projs[i]), projs, i + 1)

\* The loop of migrateOldFormat over Object.entries(oldGroups), from entry g:
\* iterating the projects of a group that has none (group.projects undefined)
\* throws a TypeError.
RECURSIVE MigrateGroups(_, _, _, _)
MigrateGroups(oldGroups, g, registry, newGroups) ==
  IF g > Len(oldGroups)
    THEN [threw |-> FALSE, groups |-> newGroups, projects |-> registry]
  ELSE IF oldGroups[g].shape # "projects"
    THEN [threw |-> TRUE, groups |-> newGroups, projects |-> registry]
  ELSE MigrateGroups(oldGroups, g + 1,
         Registered(registry, oldGroups[g].projects, 1),
         Append(newGroups,
                NewGroup(oldGroups[g].name,
                         [i \in DOMAIN oldGroups[g].projects |->
                            oldGroups[g].projects[i].fullPath])))

migrateOldFormat(raw) ==
  LET out == MigrateGroups(raw.groups, 1, NoEntries, <<>>)
  IN  [threw |-> out.threw,
       config |-> Json(raw.environments, out.groups, out.projects)]

\* The old format as loadConfig detects it: the first group has a projects
\* array whose first element is an object.
DetectedOld(raw) ==
  /\ Len(raw.groups) > 0
  /\ raw.groups[1].shape = "projects"
  /\ Len(raw.groups[1].projects) > 0

Load(threw, cfg, file) == [threw |-> threw, config |-> cfg, file |-> file]

\* loadConfig(): what it returns and what it leaves in the file.  No file:
\* the default configuration; a file that is not JSON: JSON.parse throws; the
\* old format detected: the migrated configuration, saved before it is returned.
loadConfig(file) ==
  IF file.state = "absent" THEN Load(FALSE, defaultConfig, file)
  ELSE IF file.state = "corrupt" THEN Load(TRUE, NoFile, file)
  ELSE IF DetectedOld(file)
    THEN LET migrated == migrateOldFormat(file)
         IN  IF migrated.threw THEN Load(TRUE, NoFile, file)
             ELSE Load(FALSE, migrated.config, migrated.config)
  ELSE Load(FALSE, file, file)

\* A test for environments that every configuration passes.
hasEnvironmentsAlways(cfg) == TRUE

hasEnvironments(cfg) == Len(cfg.environments) > 0

\* A name of spaces only, and String.prototype.trim on the names modelled.
SpacesName == "  "

Trim(name) == IF name = SpacesName THEN "" ELSE name

\* The loop of validateConfig over cfg.environments, from index i, with the
\* names and orders seen so far; then the test that the sorted orders are
\* 0, 1, 2, ...  The result is the error thrown, "" when none is.
RECURSIVE CheckEnvironments(_, _, _, _)
CheckEnvironments(envs, i, envNames, envOrders) ==
  IF i > Len(envs)
    THEN IF envOrders = 0..(Cardinality(envOrders) - 1) THEN ""
         ELSE "Environment orders must be sequential"
  ELSE IF Trim(envs[i].name) = ""
    THEN "Environment missing required field name"
  ELSE IF envs[i].name \in envNames THEN "Duplicate environment name"
  ELSE IF envs[i].order \in envOrders THEN "Duplicate environment order"
  ELSE CheckEnvironments(envs, i + 1, envNames \cup {envs[i].name},
                         envOrders \cup {envs[i].order})

\* The groups and the registry of the files handed to config set.
GivenGroups == <<NewGroup("backend", <<ProjectPaths[1]>>)>>

GivenProjects ==
  [path \in {ProjectPaths[1]} |->
     Project(path, FullBranchMap(path, ChainNames(ScenarioChain)))]

\* validateConfig(config): the error thrown, "" when the value is accepted,
\* and the configuration returned.
validateConfig(value) ==
  LET error ==
        IF ~value.object THEN "Config must be an object"
        ELSE IF ~value.isArray
          THEN "Config field environments must be an array"
        ELSE IF Len(value.environments) = 0
          THEN "Config must have at least one environment"
        ELSE IF CheckEnvironments(value.environments, 1, {}, {}) # ""
          THEN CheckEnvironments(value.environments, 1, {}, {})
        ELSE IF ~value.groupsOk THEN "Config field groups must be an object"
        ELSE IF ~value.projectsOk
          THEN "Config field projects must be an object"
        ELSE ""
  IN  [threw |-> error # "", error |-> error,
       config |-> Json(value.environments, GivenGroups, GivenProjects)]

\* Environments arrays of a file: up to n entries, each a name (one of the
\* first n names, or spaces) with an order in 0..n.
RECURSIVE FileEnvironments(_)
FileEnvironments(n) ==
  IF n = 0 THEN {<<>>}
  ELSE LET entries == {[name |-> name, order |-> order] :
                         name \in {EnvName(k) : k \in 0..(MaxChain - 1)}
                                    \cup {SpacesName},
                         order \in 0..MaxChain}
       IN  FileEnvironments(n - 1) \cup
           {Append(envs, entry) :
              envs \in {e \in FileEnvironments(n - 1) : Len(e) = n - 1},
              entry \in entries}

GivenValues ==
  {Value(TRUE, TRUE, envs, TRUE, TRUE) : envs \in FileEnvironments(MaxChain)}
    \cup {Value(object, isArray, ChainOf([i \in 1..2 |-> i - 1]), groupsOk,
                projectsOk) :
            object \in BOOLEAN, isArray \in BOOLEAN, groupsOk \in BOOLEAN,
            projectsOk \in BOOLEAN}

GivenFiles ==
  {[readable |-> FALSE, json |-> FALSE, value |-> NoGiven.value],
   [readable |-> TRUE, json |-> FALSE, value |-> NoGiven.value]}
    \cup {[readable |-> TRUE, json |-> TRUE, value |-> value] :
            value \in GivenValues}

\* The member lists of the groups of the files the commands start from: no
\* group, one group, or two, the first of them possibly empty.
StoredMembers ==
  LET first == {<<>>, <<ProjectPaths[1]>>, <<ProjectPaths[1], ProjectPaths[2]>>}
      second == {<<>>, <<ProjectPaths[2]>>, <<ProjectPaths[1]>>}
  IN  {<<>>} \cup {<<a>> : a \in first}
        \cup {<<a, b>> : a \in first, b \in second}

StoredGroupNames == <<"backend", "frontend">>

StoredProject(path) ==
  Project(path, FullBranchMap(path, ChainNames(ScenarioChain)))

OldGroups(members) ==
  [g \in DOMAIN members |->
     OldGroup(StoredGroupNames[g],
              [i \in DOMAIN members[g] |-> StoredProject(members[g][i])])]

NewGroups(members) ==
  [g \in DOMAIN members |-> NewGroup(StoredGroupNames[g], members[g])]

StoredRegistry ==
  [path \in {ProjectPaths[1], ProjectPaths[2]} |-> StoredProject(path)]

StoredEnvironments == {<<>>, ChainOf([i \in 1..2 |-> i - 1])}

\* The files a command can find: none, one that is not JSON, one of the old
\* format, one of the new format.
StoredFiles ==
  {NoFile, CorruptFile}
    \cup {Json(envs, OldGroups(members), NoEntries) :
            envs \in StoredEnvironments, members \in StoredMembers}
    \cup {Json(envs, NewGroups(members), StoredRegistry) :
            envs \in StoredEnvironments, members \in StoredMembers}

Run(command, loads) == [cmd |-> command, loads |-> loads]

InitConfigFile ==
  /\ ExecIdle
  /\ ResolveIdle
  /\ CommandIdle
  /\ StatusIdle
  /\ StoreIdle
  /\ MenuIdle
  /\ AddIdle
  /\ VersionIdle
  /\ stored \in StoredFiles
  /\ origin = stored
  /\ loaded = NoFile
  /\ given = NoGiven
  /\ backup = NoBackup
  /\ fpc = "idle"
  /\ ran = Run("none", 0)

FileFrame ==
  UNCHANGED <<resolveVars, execVars, commandVars, statusVars, storeVars,
              menuVars, addVars, versionVars>>

\* runConfigSet lines 23-37: the file at the path is read.
ConfigSetRead ==
  /\ fpc = "idle"
  /\ \E file \in GivenFiles :
       /\ given' = file
       /\ fpc' = IF file.readable THEN "read" ELSE "failed"
  /\ origin' = stored
  /\ ran' = Run("set", 0)
  /\ UNCHANGED <<stored, loaded, backup>>
  /\ FileFrame

\* runConfigSet lines 40-45: JSON.parse.
ConfigSetParse ==
  /\ fpc = "read"
  /\ fpc' = IF given.json THEN "parsed" ELSE "failed"
  /\ UNCHANGED <<stored, origin, loaded, given, backup, ran>>
  /\ FileFrame

\* runConfigSet line 48: validateConfig.
ConfigSetValidate ==
  /\ fpc = "parsed"
  /\ fpc' = IF validateConfig(given.value).threw THEN "failed" ELSE "validated"
  /\ UNCHANGED <<stored, origin, loaded, given, backup, ran>>
  /\ FileFrame

\* runConfigSet line 51: loadConfig, for the backup.
ConfigSetLoad ==
  /\ fpc = "validated"
  /\ LET load == loadConfig(stored)
     IN  /\ stored' = load.file
         /\ loaded' = load.config
         /\ fpc' = IF load.threw THEN "failed" ELSE "loaded"
  /\ ran' = Run("set", ran.loads + 1)
  /\ UNCHANGED <<origin, given, backup>>
  /\ FileFrame

\* A backup write whose failure is not noticed.
afterBackupUnnoticed(fault) == "backedUp"

\* runConfigSet lines 59-69: a failed write of the backup throws.
afterBackup(fault) == IF fault THEN "failed" ELSE "backedUp"

\* runConfigSet lines 52-69: the backup of the configuration loaded.
ConfigSetBackup ==
  /\ fpc = "loaded"
  /\ \E fault \in BOOLEAN :
       /\ backup' = IF fault THEN backup
                    ELSE [written |-> TRUE, config |-> loaded]
       /\ fpc' = afterBackup(fault)
  /\ UNCHANGED <<stored, origin, loaded, given, ran>>
  /\ FileFrame

\* runConfigSet lines 72-75: saveConfig(newConfig).
ConfigSetSave ==
  /\ fpc = "backedUp"
  /\ stored' = validateConfig(given.value).config
  /\ fpc' = "saved"
  /\ UNCHANGED <<origin, loaded, given, backup, ran>>
  /\ FileFrame

Digits == <<"0", "1", "2", "3", "4", "5", "6", "7", "8", "9">>

\* parseInt(countStr, 10) of the answers modelled: one digit, or no number.
parseInt(str) ==
  IF \E k \in DOMAIN Digits : Digits[k] = str
    THEN [nan |-> FALSE,
          value |-> (CHOOSE k \in DOMAIN Digits : Digits[k] = str) - 1]
    ELSE [nan |-> TRUE, value |-> 0]

\* What is typed into the prompts of the setup flow: abort is a prompt closed
\* with Ctrl+C, names are the names typed for environments 1, 2, ...
SetupAnswers(names) ==
  [abort : BOOLEAN, overwrite : BOOLEAN,
   count : {"", "abc"} \cup {Digits[k + 1] : k \in 0..MaxChain},
   names : names, ok : BOOLEAN]

Answers ==
  SetupAnswers([1..MaxChain -> {EnvName(k) : k \in 0..(MaxChain - 1)}
                                 \cup {SpacesName}])

FlowEnd(end, file, cfg) == [end |-> end, file |-> file, config |-> cfg]

\* runSetupFlow(): how it ends and what it leaves in the file.
runSetupFlow(file, answers) ==
  LET load == loadConfig(file)
      count == parseInt(answers.count)
      environments ==
        [i \in 1..count.value |->
           [name |-> Trim(answers.names[i]), order |-> i - 1]]
  IN  IF load.threw THEN FlowEnd("threw", load.file, load.config)
      ELSE IF answers.abort THEN FlowEnd("aborted", load.file, load.config)
      ELSE IF Len(load.config.environments) > 0 /\ ~answers.overwrite
        THEN FlowEnd("cancelled", load.file, load.config)
      ELSE IF count.nan \/ count.value < 2
        THEN FlowEnd("tooFew", load.file, load.config)
      ELSE IF ~answers.ok THEN FlowEnd("cancelled", load.file, load.config)
      ELSE FlowEnd("flowSaved",
                   [load.config EXCEPT !.environments = environments],
                   [load.config EXCEPT !.environments = environments])

\* husgit setup flow
SetupFlow ==
  /\ fpc = "idle"
  /\ \E answers \in Answers :
       LET out == runSetupFlow(stored, answers)
       IN  /\ stored' = out.file
           /\ loaded' = out.config
           /\ fpc' = out.end
  /\ origin' = stored
  /\ ran' = Run("flow", 1)
  /\ UNCHANGED <<given, backup>>
  /\ FileFrame

\* Any command's loadConfig(), and the loadConfig() of the command after it.
LoadConfig ==
  /\ fpc \in {"idle", "load"}
  /\ ran.loads < 2
  /\ LET load == loadConfig(stored)
     IN  /\ stored' = load.file
         /\ loaded' = load.config
         /\ fpc' = IF load.threw THEN "threw" ELSE "load"
  /\ origin' = IF fpc = "idle" THEN stored ELSE origin
  /\ ran' = Run("load", ran.loads + 1)
  /\ UNCHANGED <<given, backup>>
  /\ FileFrame

NextConfigFile ==
  \/ ConfigSetRead
  \/ ConfigSetParse
  \/ ConfigSetValidate
  \/ ConfigSetLoad
  \/ ConfigSetBackup
  \/ ConfigSetSave
  \/ SetupFlow
  \/ LoadConfig

SpecConfigFile == InitConfigFile /\ [][NextConfigFile]_vars

-----------------------------------------------------------------------------
(* The interactive menu *)

MenuActions ==
  {"setup", "groups", "projects", "release", "backport", "status", "config",
   "exit"}

GroupActions == {"add", "add-project", "list", "remove", "back"}

ProjectActions == {"add", "remove", "back"}

\* How a flow ended as its caller sees it: it returned ("done" and the like),
\* a prompt was closed with Ctrl+C ("aborted": ExitPromptError), or another
\* error was thrown ("threw"); and what it left in the file.
Sub(end, file) == [end |-> end, file |-> file, source |-> ""]

SubFrom(end, file, source) == [end |-> end, file |-> file, source |-> source]

\* An error handler that takes no error for a prompt abort.
isAbortNever(end) == FALSE

\* isAbort(err): the error is an ExitPromptError or a CancelPromptError.
isAbort(end) == end = "aborted"

\* The configuration as the registry operations see it, and the file
\* contents after such an operation: the entries kept stay in key order, a
\* new key comes last.
AsStore(cfg) ==
  Store(cfg.projects,
        [name \in {cfg.groups[g].name : g \in DOMAIN cfg.groups} |->
           cfg.groups[CHOOSE g \in DOMAIN cfg.groups :
                        cfg.groups[g].name = name].projectPaths])

FromStore(cfg, store) ==
  LET kept == SelectSeq(cfg.groups,
                        LAMBDA entry : entry.name \in DOMAIN store.groups)
      updated == [g \in DOMAIN kept |->
                    IF kept[g].shape = "projectPaths"
                      THEN NewGroup(kept[g].name, store.groups[kept[g].name])
                      ELSE kept[g]]
      added == DOMAIN store.groups \ {cfg.groups[g].name : g \in DOMAIN cfg.groups}
  IN  Json(cfg.environments,
           IF added = {} THEN updated
           ELSE Append(updated, NewGroup(CHOOSE name \in added : TRUE, <<>>)),
           store.projects)

\* config.groups[name].shape, "undefined" when there is no such group.
ShapeOf(cfg, name) ==
  IF \E g \in DOMAIN cfg.groups : cfg.groups[g].name = name
    THEN cfg.groups[CHOOSE g \in DOMAIN cfg.groups :
                      cfg.groups[g].name = name].shape
    ELSE "undefined"

\* runGroupAdd(name): the error of addGroup is caught and printed.
runGroupAdd(file, name) ==
  LET load == loadConfig(file)
      out == addGroup(AsStore(load.config), name)
  IN  IF load.threw THEN Sub("threw", load.file)
      ELSE IF out.threw THEN Sub("done", load.file)
      ELSE Sub("done", FromStore(load.config, out.store))

\* runGroupRemove(name, {}): the project count is read from
\* config.groups[name].projects, which a group of the new format has not.
runGroupRemove(file, name, answers) ==
  LET load == loadConfig(file)
      out == removeGroup(AsStore(load.config), name)
  IN  IF load.threw THEN Sub("threw", load.file)
      ELSE IF ShapeOf(load.config, name) = "undefined"
        THEN Sub("done", load.file)
      ELSE IF ShapeOf(load.config, name) # "projects"
        THEN Sub("threw", load.file)
      ELSE IF answers.abortAt = "confirm" THEN Sub("aborted", load.file)
      ELSE IF ~answers.ok THEN Sub("done", load.file)
      ELSE IF out.threw THEN Sub("done", load.file)
      ELSE Sub("done", FromStore(load.config, out.store))

\* runProjectRemove(fullPath, {}): removeProject filters the projectPaths of
\* every group, which throws for a group that has none; the error is caught.
runProjectRemove(file, fullPath, answers) ==
  LET load == loadConfig(file)
      out == removeProject(AsStore(load.config), fullPath)
  IN  IF load.threw THEN Sub("threw", load.file)
      ELSE IF DOMAIN load.config.projects = {} THEN Sub("done", load.file)
      ELSE IF fullPath \notin DOMAIN load.config.projects
        THEN Sub("done", load.file)
      ELSE IF answers.abortAt = "confirm" THEN Sub("aborted", load.file)
      ELSE IF ~answers.ok THEN Sub("done", load.file)
      ELSE IF \E g \in DOMAIN load.config.groups :
                load.config.groups[g].shape # "projectPaths"
        THEN Sub("done", load.file)
      ELSE Sub("done", FromStore(load.config, out.store))

\* What is typed into the prompts of a sub-menu and of the command it runs:
\* abortAt is the prompt closed with Ctrl+C, rest is how the part of a command
\* that is not modelled here ended.
Rests == {"done", "aborted", "threw"}

GroupAnswers ==
  [abortAt : {"none", "menu", "action", "confirm"}, choice : GroupActions,
   name : GroupNames, ok : BOOLEAN, rest : Rests]

ProjectAnswers ==
  [abortAt : {"none", "menu", "action", "confirm"}, choice : ProjectActions,
   path : {ProjectPaths[1], ProjectPaths[2]}, ok : BOOLEAN, rest : Rests]

FlowAnswers == [abortAt : {"none", "action"}, rest : Rests]

\* The names typed in the setup flow run from the menu: the defaults, or the
\* first default for every environment.
MenuAnswers ==
  SetupAnswers({[i \in 1..MaxChain |-> EnvName(i - 1)],
                [i \in 1..MaxChain |-> EnvName(0)]})

\* A sub-menu returns when its own handler took the error for an abort.
Caught(out) ==
  IF isAbort(out.end) THEN [out EXCEPT !.end = "aborted and caught"] ELSE out

\* groupsMenu(): an abort at its prompt or in its action is caught and the
\* sub-menu returns; the add-project flow is taken by how it ended.
groupsMenu(file, answers) ==
  IF answers.abortAt = "menu" THEN Caught(Sub("aborted", file))
  ELSE IF answers.choice = "add"
    THEN IF answers.abortAt = "action" THEN Caught(Sub("aborted", file))
         ELSE runGroupAdd(file, answers.name)
  ELSE IF answers.choice = "add-project"
    THEN IF loadConfig(file).threw THEN Sub("threw", file)
         ELSE IF Len(loadConfig(file).config.groups) = 0
           THEN Sub("done", loadConfig(file).file)
         ELSE Caught(Sub(answers.rest, loadConfig(file).file))
  ELSE IF answers.choice = "remove"
    THEN IF loadConfig(file).threw THEN Sub("threw", file)
         ELSE IF Len(loadConfig(file).config.groups) = 0
           THEN Sub("done", loadConfig(file).file)
         ELSE IF answers.abortAt = "action"
           THEN Caught(Sub("aborted", loadConfig(file).file))
         ELSE Caught(runGroupRemove(loadConfig(file).file, answers.name,
                                    answers))
  ELSE Sub("done", file)

\* projectsMenu()
projectsMenu(file, answers) ==
  IF answers.abortAt = "menu" THEN Caught(Sub("aborted", file))
  ELSE IF answers.choice = "add"
    THEN Caught(Sub(answers.rest, loadConfig(file).file))
  ELSE IF answers.choice = "remove"
    THEN IF loadConfig(file).threw THEN Sub("threw", file)
         ELSE IF DOMAIN loadConfig(file).config.projects = {}
           THEN Sub("done", loadConfig(file).file)
         ELSE IF answers.abortAt = "action"
           THEN Caught(Sub("aborted", loadConfig(file).file))
         ELSE Caught(runProjectRemove(loadConfig(file).file, answers.path,
                                      answers))
  ELSE Sub("done", file)

\* The environments the release prompt offers: those at array index
\* i < length - 1; the backport prompt: those at array index i > 0.
releasableEnvs(envs) == SubSeq(envs, 1, Len(envs) - 1)

backportableEnvs(envs) == SubSeq(envs, 2, Len(envs))

offeredEnvs(envs, dir) ==
  IF dir = "release" THEN releasableEnvs(envs) ELSE backportableEnvs(envs)

\* runRelease(undefined, {}) and runBackport(undefined, {}): the source is
\* the environment picked at the prompt; without an adjacent environment the
\* error is printed and the run returns; the rest of the run is taken by how
\* it ended.
runFromPrompt(file, dir, pick, answers) ==
  LET load == loadConfig(file)
      offered == offeredEnvs(load.config.environments, dir)
  IN  IF load.threw THEN Sub("threw", load.file)
      ELSE IF Len(offered) = 0 THEN Sub("notEnough", load.file)
      ELSE IF answers.abortAt # "none" THEN Sub("aborted", load.file)
      ELSE IF TargetEnvironment(load.config, offered[pick].name, dir) =
                NoEnvironment
        THEN SubFrom("noAdjacent", load.file, offered[pick].name)
      ELSE SubFrom(answers.rest, load.file, offered[pick].name)

\* The chains a stored configuration can hold: none, or one validateConfig
\* accepts, the environments in any array order.
MenuChains == {<<>>} \cup UNION {Chains(n) : n \in 1..MaxChain}

\* The files the menu starts from.
MenuFiles ==
  {NoFile, CorruptFile}
    \cup {Json(envs, <<>>, NoEntries) : envs \in MenuChains}
    \cup {Json(envs, NewGroups(<<<<ProjectPaths[1]>>>>), StoredRegistry) :
            envs \in MenuChains}
    \cup {Json(envs, OldGroups(<<<<ProjectPaths[1]>>>>), NoEntries) :
            envs \in MenuChains}

InitMenu ==
  /\ ExecIdle
  /\ ResolveIdle
  /\ CommandIdle
  /\ StatusIdle
  /\ StoreIdle
  /\ AddIdle
  /\ VersionIdle
  /\ stored \in MenuFiles
  /\ origin = stored
  /\ loaded = NoFile
  /\ given = NoGiven
  /\ backup = NoBackup
  /\ fpc = "none"
  /\ ran = NoRun
  /\ mpc = "enter"
  /\ action = "none"
  /\ sub = NoSub

MenuFrame ==
  /\ UNCHANGED <<resolveVars, execVars, commandVars, statusVars, storeVars,
                 addVars, versionVars>>
  /\ UNCHANGED <<origin, given, backup, fpc, ran>>

\* interactiveMenu lines 32-51: the configuration is loaded; without
\* environments the setup flow is next, otherwise the main menu is shown.
MenuEnter ==
  /\ mpc = "enter"
  /\ LET load == loadConfig(stored)
     IN  /\ stored' = load.file
         /\ loaded' = load.config
         /\ mpc' = IF load.threw THEN "error"
                   ELSE IF ~hasEnvironments(load.config) THEN "firstSetup"
                   ELSE "menu"
  /\ UNCHANGED <<action, sub>>
  /\ MenuFrame

\* interactiveMenu lines 40-41: await runSetupFlow() outside any try, then
\* the menu is entered again.
FirstSetup ==
  /\ mpc = "firstSetup"
  /\ \E answers \in MenuAnswers :
       LET out == runSetupFlow(stored, answers)
       IN  /\ stored' = out.file
           /\ sub' = [flow |-> "firstSetup", end |-> out.end, source |-> ""]
           /\ mpc' = IF out.end \in {"aborted", "threw"} THEN "error"
                     ELSE "enter"
  /\ UNCHANGED <<loaded, action>>
  /\ MenuFrame

\* The catch of the main menu prompt: an abort ends the menu, any other
\* error is thrown on.
afterMenuPrompt(end) ==
  IF end = "chosen" THEN "dispatch"
  ELSE IF isAbort(end) THEN "ended"
  ELSE "error"

\* interactiveMenu lines 52-67: the main menu prompt.
MenuPrompt ==
  /\ mpc = "menu"
  /\ \E end \in {"chosen", "aborted"} :
       /\ sub' = [flow |-> "menu", end |-> end, source |-> ""]
       /\ mpc' = afterMenuPrompt(end)
       /\ IF end = "chosen" THEN action' \in MenuActions
          ELSE action' = action
  /\ UNCHANGED <<stored, loaded>>
  /\ MenuFrame

\* The catch of the switch: an abort re-enters the menu, any other error is
\* thrown on; setup, groups and projects re-enter the menu when they return,
\* the commands end it.
afterDispatch(chosen, end) ==
  IF isAbort(end) THEN "enter"
  ELSE IF end = "threw" THEN "error"
  ELSE IF chosen \in {"setup", "groups", "projects"} THEN "enter"
  ELSE "ended"

Dispatched(chosen, out) ==
  /\ stored' = out.file
  /\ sub' = [flow |-> chosen, end |-> out.end, source |-> out.source]
  /\ mpc' = afterDispatch(chosen, out.end)
  /\ UNCHANGED <<loaded, action>>
  /\ MenuFrame

\* case 'setup'
DispatchSetup ==
  /\ mpc = "dispatch" /\ action = "setup"
  /\ \E answers \in MenuAnswers :
       LET out == runSetupFlow(stored, answers)
       IN  Dispatched("setup", Sub(out.end, out.file))

\* case 'groups'
DispatchGroups ==
  /\ mpc = "dispatch" /\ action = "groups"
  /\ \E answers \in GroupAnswers :
       Dispatched("groups", groupsMenu(stored, answers))

\* case 'projects'
DispatchProjects ==
  /\ mpc = "dispatch" /\ action = "projects"
  /\ \E answers \in ProjectAnswers :
       Dispatched("projects", projectsMenu(stored, answers))

\* case 'release', case 'backport'
DispatchFlow ==
  /\ mpc = "dispatch" /\ action \in {"release", "backport"}
  /\ \E answers \in FlowAnswers, pick \in 1..MaxChain :
       /\ pick <= Len(offeredEnvs(loadConfig(stored).config.environments,
                                  action))
            \/ pick = 1
       /\ Dispatched(action, runFromPrompt(stored, action, pick, answers))

\* case 'status', case 'config': commands without a prompt.
DispatchCommand ==
  /\ mpc = "dispatch" /\ action \in {"status", "config"}
  /\ \E end \in {"done", "threw"} :
       Dispatched(action, Sub(end, loadConfig(stored).file))

\* case 'exit'
DispatchExit ==
  /\ mpc = "dispatch" /\ action = "exit"
  /\ mpc' = "ended"
  /\ UNCHANGED <<stored, loaded, action, sub>>
  /\ MenuFrame

NextMenu ==
  \/ MenuEnter
  \/ FirstSetup
  \/ MenuPrompt
  \/ DispatchSetup
  \/ DispatchGroups
  \/ DispatchProjects
  \/ DispatchFlow
  \/ DispatchCommand
  \/ DispatchExit

SpecMenu == InitMenu /\ [][NextMenu]_vars

-----------------------------------------------------------------------------
(* The multi-project add flow of group add-project *)

Tally(store, saved, failed) ==
  [store |-> store, saved |-> saved, failed |-> failed]

\* The save loop of runGroupAddProject, from entry i of toAdd: addProject,
\* then addProjectToGroup for the project's group; an error is caught, the
\* project is reported as failed and the loop goes on with the configuration
\* as the calls left it.
RECURSIVE SaveLoop(_, _, _, _)
SaveLoop(tally, toAdd, groupOf, i) ==
  IF i > Len(toAdd) THEN tally
  ELSE
    LET added == addProject(tally.store, toAdd[i])
        grouped == IF groupOf[i] = NoGroup THEN added
                   ELSE addProjectToGroup(added.store, groupOf[i],
                                          toAdd[i].fullPath)
    IN  SaveLoop(IF grouped.threw
                   THEN Tally(grouped.store, tally.saved,
                              tally.failed \cup {toAdd[i].fullPath})
                   ELSE Tally(grouped.store,
                              tally.saved \cup {toAdd[i].fullPath},
                              tally.failed),
                 toAdd, groupOf, i + 1)

\* The projects ticked at the checkbox: up to n projects GitLab knows, each
\* once.
RECURSIVE Selections(_)
Selections(n) ==
  IF n = 0 THEN {<<>>}
  ELSE Selections(n - 1) \cup
       UNION {{Append(list, path) :
                 path \in RegistryPaths \ {list[i] : i \in DOMAIN list}} :
              list \in {l \in Selections(n - 1) : Len(l) = n - 1}}

\* The member lists a stored group can hold: validateConfig asks for strings,
\* not for registry keys.
MemberLists == {<<>>} \cup {<<path>> : path \in RegistryPaths}

\* The configurations the flow starts from: any of the projects registered,
\* the groups with any member lists.
InitAdd ==
  /\ ExecIdle
  /\ ResolveIdle
  /\ CommandIdle
  /\ StatusIdle
  /\ FileIdle
  /\ MenuIdle
  /\ AddIdle
  /\ VersionIdle
  /\ \E registered \in SUBSET RegistryPaths :
       cfgProjects = [path \in registered |-> StoredProject(path)]
  /\ \E names \in SUBSET GroupNames : cfgGroups \in [names -> MemberLists]
  /\ cfgLast = NoOperation

\* runGroupAddProject without --project-id, lines 84-183: the projects
\* selected that are not registered are configured and assigned a group (the
\* group argument, or one picked per project), confirmed, and added in the
\* save loop; saveConfig is called when at least one was saved.
ProjectsAdd ==
  /\ \E selected \in Selections(MaxProjects), ok \in BOOLEAN,
        groupArg \in DOMAIN cfgGroups \cup {NoGroup} :
       LET fresh == SelectSeq(selected,
                              LAMBDA path : path \notin DOMAIN cfgProjects)
           toAdd == [i \in DOMAIN fresh |-> StoredProject(fresh[i])]
       IN  \E groupOf \in [DOMAIN fresh -> DOMAIN cfgGroups \cup {NoGroup}] :
             /\ groupArg # NoGroup => \A i \in DOMAIN fresh : groupOf[i] = groupArg
             /\ LET tally == IF Len(fresh) > 0 /\ ok
                               THEN SaveLoop(Tally(Loaded, {}, {}), toAdd,
                                             groupOf, 1)
                             ELSE Tally(Loaded, {}, {})
                IN  /\ cfgProjects' = IF tally.saved # {}
                                        THEN tally.store.projects
                                        ELSE cfgProjects
                    /\ cfgGroups' = IF tally.saved # {}
                                      THEN tally.store.groups
                                      ELSE cfgGroups
                    /\ addRun' = [ran |-> Len(fresh) > 0 /\ ok,
                                  before |-> Loaded,
                                  saved |-> tally.saved,
                                  failed |-> tally.failed]
  /\ cfgLast' = Operation("addProjects", "", "")
  /\ UNCHANGED <<resolveVars, execVars, commandVars, statusVars, fileVars,
                 menuVars, versionVars>>

NextAdd == ProjectsAdd

SpecAdd == InitAdd /\ [][NextAdd]_vars

-----------------------------------------------------------------------------
(* The version check *)

\* 8 hours in milliseconds
CACHE_TTL == 8 * 60 * 60 * 1000

\* The versions of the package and of the registry.
Versions == {"0.0.0", "1.9.0", "1.10.0"}

\* fetchLatestVersion() returning null.
FetchFailed == ""

\* v.split('.').map((p) => parseInt(p, 10)), with 0 for a part that is missing.
parseVersion(v) ==
  CASE v = "1.9.0" -> <<1, 9, 0>>
    [] v = "1.10.0" -> <<1, 10, 0>>
    [] OTHER -> <<0, 0, 0>>

isVersionGreater(latest, current) ==
  LET l == parseVersion(latest)
      c == parseVersion(current)
  IN  IF l[1] # c[1] THEN l[1] > c[1]
      ELSE IF l[2] # c[2] THEN l[2] > c[2]
      ELSE l[3] > c[3]

\* A cache that is never taken for valid.
isCacheValidNever(entry, at) == FALSE

\* isCacheValid(cache): Date.now() - cache.checkedAt < CACHE_TTL
isCacheValid(entry, at) == at - entry.checkedAt < CACHE_TTL

Check(current, latest, update, cached, fetched, file) ==
  [currentVersion |-> current, latestVersion |-> latest,
   updateAvailable |-> update, cached |-> cached, fetched |-> fetched,
   cache |-> file]

\* checkVersion(): what it returns, whether it fetched, and the cache file it
\* leaves.  answer is what npm view would print, writeFails a failure of
\* writeCache, which is ignored.
checkVersion(entry, at, current, answer, writeFails) ==
  IF entry.some /\ isCacheValid(entry, at)
    THEN Check(current, entry.latestVersion,
               isVersionGreater(entry.latestVersion, current), TRUE, "none",
               entry)
  ELSE IF answer # FetchFailed
    THEN Check(current, answer, isVersionGreater(answer, current), FALSE, "ok",
               IF writeFails THEN entry
               ELSE [some |-> TRUE, latestVersion |-> answer,
                     checkedAt |-> at])
  ELSE IF entry.some
    THEN Check(current, entry.latestVersion,
               isVersionGreater(entry.latestVersion, current), TRUE, "failed",
               entry)
  ELSE Check(current, current, FALSE, FALSE, "failed", entry)

InitVersion ==
  /\ ExecIdle
  /\ ResolveIdle
  /\ CommandIdle
  /\ StatusIdle
  /\ StoreIdle
  /\ FileIdle
  /\ MenuIdle
  /\ AddIdle
  /\ now = 0
  /\ elapses = 0
  /\ cache = NoCache
  /\ lastFetch = NoCache
  /\ vresult = NoCheck

VersionFrame ==
  UNCHANGED <<resolveVars, execVars, commandVars, statusVars, storeVars,
              fileVars, menuVars, addVars>>

\* A start of the CLI: main calls checkVersion().
CheckVersion ==
  /\ \E current \in Versions, answer \in Versions \cup {FetchFailed},
        writeFails \in BOOLEAN :
       LET out == checkVersion(cache, now, current, answer, writeFails)
       IN  /\ cache' = out.cache
           /\ lastFetch' = IF out.fetched = "ok"
                             THEN [some |-> TRUE, latestVersion |-> answer,
                                   checkedAt |-> now]
                             ELSE lastFetch
           /\ vresult' = [called |-> TRUE, at |-> now, before |-> cache,
                          since |-> lastFetch, fetched |-> out.fetched,
                          currentVersion |-> out.currentVersion,
                          latestVersion |-> out.latestVersion,
                          updateAvailable |-> out.updateAvailable,
                          cached |-> out.cached]
  /\ UNCHANGED <<now, elapses>>
  /\ VersionFrame

\* Time passes between two starts: a millisecond, or a millisecond less than
\* the time the cache lives.
Elapse ==
  /\ elapses < MaxElapses
  /\ \E d \in {1, CACHE_TTL - 1} : now' = now + d
  /\ elapses' = elapses + 1
  /\ UNCHANGED <<cache, lastFetch, vresult>>
  /\ VersionFrame

NextVersion ==
  \/ CheckVersion
  \/ Elapse

SpecVersion == InitVersion /\ [][NextVersion]_vars

-----------------------------------------------------------------------------
(* Properties of resolveBranchPairs *)

ChainLength == Len(config.environments)

SourceKnown == sourceEnvName \in ChainNames(config.environments)

\* The order value of the source environment (SourceKnown).
SourceOrder ==
  (CHOOSE e \in {config.environments[i] : i \in DOMAIN config.environments} :
     e.name = sourceEnvName).order

\* The order value one step along the direction of the call.
AdjacentOrder == IF direction = "release" THEN SourceOrder + 1 ELSE SourceOrder - 1

HasAdjacent == SourceKnown /\ AdjacentOrder \in 0..(ChainLength - 1)

AdjacentName == EnvName(AdjacentOrder)

Mapped(project, envName) ==
  /\ envName \in DOMAIN project.branchMap
  /\ project.branchMap[envName] # EmptyBranch

AllMapped ==
  \A k \in DOMAIN projects :
    Mapped(projects[k], sourceEnvName) /\ Mapped(projects[k], AdjacentName)

\* C1: on a chain of two or more environments, with the source environment at
\* order i, a release resolves every pair against the environment of order
\* i+1 and a backport against the one of order i-1 (the pair's branches are
\* the project's branches for the source and for that environment); from the
\* last environment (release) or the first (backport) the call throws the
\* no-adjacent-environment error and returns no pairs.
C1_AdjacentTarget ==
  (rpc = "done" /\ ChainLength >= 2 /\ SourceKnown) =>
    IF HasAdjacent
      THEN /\ resolved.error # "NoAdjacentEnvironment"
           /\ \A k \in DOMAIN resolved.pairs :
                /\ resolved.pairs[k].sourceBranch =
                     BranchOf(resolved.pairs[k].project, sourceEnvName)
                /\ resolved.pairs[k].targetBranch =
                     BranchOf(resolved.pairs[k].project, AdjacentName)
           /\ AllMapped => (resolved.kind = "return"
                            /\ Len(resolved.pairs) = Len(projects))
      ELSE resolved = Thrown("NoAdjacentEnvironment")

\* C1 witness: a backport from the last environment of a three-environment
\* chain whose array is not in order, resolved to pairs.
C1_Witness ==
  /\ rpc = "done"
  /\ ChainLength = Len(ScenarioChain)
  /\ config.environments[1].order # 0
  /\ direction = "backport"
  /\ SourceKnown /\ SourceOrder = ChainLength - 1
  /\ resolved.kind = "return"
  /\ Len(resolved.pairs) >= 1

\* C2: when every input project has a non-empty branch for the source and for
\* the target environment, the call returns one pair per project, in the order
\* of the input list, each with that project and its two branches.
C2_OnePairPerProject ==
  (rpc = "done" /\ HasAdjacent /\ AllMapped) =>
    /\ resolved.kind = "return"
    /\ Len(resolved.pairs) = Len(projects)
    /\ \A k \in DOMAIN projects :
         /\ resolved.pairs[k].project = projects[k]
         /\ resolved.pairs[k].sourceBranch = projects[k].branchMap[sourceEnvName]
         /\ resolved.pairs[k].targetBranch = projects[k].branchMap[AdjacentName]

\* C2 witness: two fully mapped projects resolved to two pairs.
C2_Witness ==
  /\ rpc = "done" /\ HasAdjacent /\ AllMapped
  /\ Len(projects) >= 2
  /\ Len(resolved.pairs) = Len(projects)

\* C3: when some input project has no branch, or an empty one, for the source
\* or the target environment, the call throws the missing-branch-mapping
\* error and yields no pair, wherever that project stands in the list.
C3_AllOrNothing ==
  (rpc = "done" /\ HasAdjacent /\ ~AllMapped) =>
    resolved = Thrown("MissingBranchMapping")

\* C3 witness: the first project is fully mapped, a later one has an empty
\* branch for the target environment, and the call threw.
C3_Witness ==
  /\ rpc = "done" /\ HasAdjacent
  /\ Len(projects) >= 2
  /\ Mapped(projects[1], sourceEnvName) /\ Mapped(projects[1], AdjacentName)
  /\ BranchOf(projects[Len(projects)], AdjacentName) = EmptyBranch
  /\ resolved.kind = "throw"

-----------------------------------------------------------------------------
(* Properties of executeMergeRequests *)

SamePair(result, pair) ==
  /\ result.project = pair.project
  /\ result.sourceBranch = pair.sourceBranch
  /\ result.targetBranch = pair.targetBranch

\* The requests of one kind this call has sent for the pair at position k.
RequestsFor(k, op) ==
  {i \in DOMAIN requests : requests[i].pair = k /\ requests[i].op = op}

\* The host's open requests between the branches of a pair.
OpenForPair(pair) ==
  OpenById(mrs, pair.project.externalId, pair.sourceBranch, pair.targetBranch)

\* C4: a call with N pairs returns N results, and result k carries the
\* project, source branch and target branch of pair k, whatever the host
\* answered for each pair (while the loop runs, the results are those of the
\* pairs already handled).
C4_OneOutcomePerPair ==
  /\ Len(results) <= Len(pairs)
  /\ \A k \in DOMAIN results : SamePair(results[k], pairs[k])
  /\ pc \in {"create", "lookup", "update"} => Len(results) = idx - 1
  /\ pc = "returned" => Len(results) = Len(pairs)

\* C4 witness: a call returned with a failed first pair and an updated second.
C4_Witness ==
  /\ pc = "returned"
  /\ Len(pairs) >= 2
  /\ Len(results) = Len(pairs)
  /\ results[1].status = "failed"
  /\ results[2].status = "updated"

\* C5 as stated: of two successive runs with identical pairs and title, on a
\* host that creates when no open request exists and answers 409 otherwise,
\* the first gives created for every pair and the second updated for every pair.
C5_CreatedThenUpdated ==
  pc = "returned" =>
    \A k \in DOMAIN results :
      results[k].status = IF rerun THEN "updated" ELSE "created"

\* C5, amended: the first run gives created for every pair that repeats no
\* earlier pair of the list and updated for a pair that does; the second run
\* gives updated for every pair.
C5_CreatedOnceThenUpdated ==
  pc = "returned" =>
    /\ Len(results) = Len(pairs)
    /\ \A k \in DOMAIN results :
         results[k].status =
           IF rerun \/ (\E j \in 1..(k - 1) : pairs[j] = pairs[k])
             THEN "updated" ELSE "created"

\* C5 witness: the second run of two distinct pairs has returned.
C5_Witness ==
  /\ pc = "returned" /\ rerun
  /\ Len(pairs) >= 2 /\ pairs[1] # pairs[2]
  /\ \A k \in DOMAIN results : results[k].status = "updated"

C8_NoRequestFound ==
  \A i \in DOMAIN requests :
    (requests[i].op = "lookup" /\ requests[i].answer = "none") =>
      LET k == requests[i].pair
      IN  /\ k \in DOMAIN results
          /\ results[k].status = "failed"
          /\ results[k].error = "NO_MR_FOUND"
          /\ Cardinality(RequestsFor(k, "create")) = 1
          /\ \A c \in RequestsFor(k, "create") :
               requests[c].answer = "MR_ALREADY_EXISTS"
          /\ RequestsFor(k, "update") = {}

\* C8 witness: a call returned after a lookup that found nothing.
C8_Witness ==
  /\ pc = "returned"
  /\ \E i \in DOMAIN requests :
       requests[i].op = "lookup" /\ requests[i].answer = "none"

\* C9: when the create of a pair failed with anything but the conflict, the
\* pair's result is failed with that error, and neither a lookup nor an update
\* was sent for the pair.
C9_CreateErrorFailsAtOnce ==
  \A i \in DOMAIN requests :
    (requests[i].op = "create"
       /\ requests[i].answer \notin {"created", "MR_ALREADY_EXISTS"}) =>
      LET k == requests[i].pair
      IN  /\ k \in DOMAIN results
          /\ results[k].status = "failed"
          /\ results[k].error = requests[i].answer
          /\ RequestsFor(k, "lookup") = {}
          /\ RequestsFor(k, "update") = {}

\* C9 witness: a call returned after a create that failed without conflict.
C9_Witness ==
  /\ pc = "returned"
  /\ \E i \in DOMAIN requests :
       requests[i].op = "create" /\ requests[i].answer \in CreateFaults

\* The request a step has just sent.
LastSent == requests'[Len(requests')]

\* C10: the description given to the call is sent with the create request and
\* with no other; an update replaces the title of the request it names and
\* leaves that request's description, source branch and target branch, and
\* every other request, as they were.
C10_UpdateChangesTitleOnly ==
  [][(requests' # requests /\ requests' # <<>>) =>
       /\ LastSent.op = "create" => LastSent.body.description = description
       /\ LastSent.op # "create" => "description" \notin DOMAIN LastSent.body
       /\ LastSent.op = "update" =>
            /\ Cardinality(mrs') = Cardinality(mrs)
            /\ \A m \in mrs :
                 \/ m \in mrs'
                 \/ /\ m.iid = LastSent.body.iid
                    /\ LastSent.answer = "updated"
                    /\ [m EXCEPT !.title = title] \in mrs']_vars

\* C10 witness: an update has just renamed a request whose description is not
\* the one given to the call.
C10_Witness ==
  /\ requests # <<>>
  /\ requests[Len(requests)].op = "update"
  /\ requests[Len(requests)].answer = "updated"
  /\ description = "notes"
  /\ \E m \in OpenForPair(pairs[requests[Len(requests)].pair]) :
       /\ m.title = title
       /\ m.description = NoDescription

\* C11: pairs are handled one at a time in input order: at most one request
\* is in flight, it belongs to the pair the loop is at, every answered request
\* belongs to that pair or an earlier one, answers arrive in pair order, and
\* every earlier pair has had its create answered.
C11_OneRequestAtATime ==
  /\ Cardinality(inflight) <= 1
  /\ \A r \in inflight : awaiting /\ r.pair = idx /\ r.op = pc
  /\ \A i \in DOMAIN requests :
       /\ requests[i].pair <= idx
       /\ \A j \in DOMAIN requests : i < j => requests[i].pair <= requests[j].pair
  /\ pc \in {"create", "lookup", "update"} =>
       \A k \in 1..(idx - 1) : RequestsFor(k, "create") # {}

\* C11 witness: the update of the second pair is in flight after the first
\* pair's requests were answered.
C11_Witness ==
  /\ idx = 2 /\ pc = "update"
  /\ inflight # {}
  /\ RequestsFor(1, "create") # {}
  /\ RequestsFor(2, "lookup") # {}

-----------------------------------------------------------------------------
(* Properties of the release and backport commands *)

\* C12: a run that ends with a resolution error (unknown source environment,
\* no adjacent environment, missing branch mapping) has sent no create, lookup
\* or update request: none answered, none in flight, executeMergeRequests not
\* entered, the host's merge requests as they were.
C12_ResolutionErrorBeforeRequests ==
  (cmd = "error" \/ resolved.kind = "throw") =>
    /\ cmd = "error"
    /\ resolved.error \in
         {"EnvironmentNotFound", "NoAdjacentEnvironment", "MissingBranchMapping"}
    /\ requests = <<>>
    /\ inflight = {}
    /\ pc = "idle"
    /\ mrs \in {{}, {ForeignRequest}}

\* C12 witness: a run with a token and without --dry-run ended with a missing
\* mapping of its second project, the first project being mapped.
C12_Witness ==
  /\ cmd = "error"
  /\ resolved.error = "MissingBranchMapping"
  /\ options.token /\ ~options.dryRun
  /\ Len(projects) >= 2
  /\ Mapped(projects[1], sourceEnvName)
  /\ Mapped(projects[1], TargetEnvironment(config, sourceEnvName, direction).name)

\* C13 as stated: a transport or credential failure ends the whole run: after
\* a request that failed because the host is unreachable no further request is
\* sent and the failure is not recorded as the failed result of a pair; a
\* missing credential ends the run before any request.
C13_TransportFailureTerminates ==
  /\ cmd = "credential" => requests = <<>> /\ inflight = {}
  /\ \A i \in DOMAIN requests :
       requests[i].answer \in TransportFaults =>
         /\ i = Len(requests)
         /\ inflight = {}
         /\ \A k \in DOMAIN results : results[k].error \notin TransportFaults

-----------------------------------------------------------------------------
(* Properties of buildEnvPairs *)

\* The environment of the chain that carries the order value.
EnvAt(order) == FindByOrder(config.environments, order)

\* C14: for a chain of N environments and no filter, buildEnvPairs yields the
\* N-1 release pairs (env[i], env[i+1]), i ascending from 0, then the N-1
\* backport pairs (env[i], env[i-1]), i descending from N-1, env taken by
\* order value; nothing for N = 0 and N = 1.
C14_AllPairsInOrder ==
  (spc = "built" /\ ~Given(stype) /\ ~Given(sourceEnvName)) =>
    LET N == ChainLength
    IN  /\ Len(envPairs) = IF N = 0 THEN 0 ELSE 2 * (N - 1)
        /\ \A i \in 0..(N - 2) :
             envPairs[i + 1] = EnvPair(EnvAt(i), EnvAt(i + 1), "release")
        /\ \A k \in 1..(N - 1) :
             envPairs[N - 1 + k] = EnvPair(EnvAt(N - k), EnvAt(N - k - 1), "backport")

\* C14 witness: three environments held out of order, no filter: the pairs
\* are (A,B) (B,C) (C,B) (B,A).
C14_Witness ==
  /\ spc = "built" /\ ~Given(stype) /\ ~Given(sourceEnvName)
  /\ ChainLength = 3
  /\ config.environments[1].order # 0
  /\ [k \in DOMAIN envPairs |->
        <<envPairs[k].sourceEnv.name, envPairs[k].targetEnv.name>>]
       = << <<EnvName(0), EnvName(1)>>, <<EnvName(1), EnvName(2)>>,
            <<EnvName(2), EnvName(1)>>, <<EnvName(1), EnvName(0)>> >>

\* C15: the filtered result is the subsequence of the unfiltered result whose
\* pairs have the given direction and the given source environment, in
\* unchanged order (an option that is absent or empty is not given).
C15_FiltersSelect ==
  spc = "built" =>
    envPairs =
      SelectSeq(buildEnvPairs(config.environments, NoOption, NoOption),
                LAMBDA p : /\ Given(stype) => p.direction = stype
                           /\ Given(sourceEnvName) => p.sourceEnv.name = sourceEnvName)

\* C15 witness: on three environments, backport from B gives only (B,A).
C15_Witness ==
  /\ spc = "built"
  /\ ChainLength = 3
  /\ stype = "backport" /\ sourceEnvName = EnvName(1)
  /\ envPairs = <<EnvPair(EnvAt(1), EnvAt(0), "backport")>>

-----------------------------------------------------------------------------
(* Properties of runStatus *)

\* The project has a non-empty branch for both ends of the pair.
Queryable(i, j) ==
  /\ Mapped(projects[i], envPairs[j].sourceEnv.name)
  /\ Mapped(projects[i], envPairs[j].targetEnv.name)

\* The scan has passed the combination.
Passed(i, j) ==
  \/ spc \in {"scanned", "printed"}
  \/ spc = "scan" /\ (i < si \/ (i = si /\ j < sj))

QueriesFor(i, j) == {k \in DOMAIN requests : requests[k].pair = <<i, j>>}

C17_QueriesExactlyMapped ==
  spc \in {"scan", "scanned", "printed"} =>
    /\ \A i \in DOMAIN projects, j \in DOMAIN envPairs :
         Cardinality(QueriesFor(i, j)) =
           IF Queryable(i, j) /\ Passed(i, j) THEN 1 ELSE 0
    /\ \A k \in DOMAIN requests :
         LET i == requests[k].pair[1]
             j == requests[k].pair[2]
         IN  /\ i \in DOMAIN projects /\ j \in DOMAIN envPairs
             /\ requests[k].body =
                  [fullPath |-> projects[i].fullPath,
                   sourceBranches |-> <<BranchOf(projects[i], envPairs[j].sourceEnv.name)>>,
                   targetBranches |-> <<BranchOf(projects[i], envPairs[j].targetEnv.name)>>]

\* C17 witness: a run ended in which a combination of the first project was
\* skipped and a later combination was queried.
C17_Witness ==
  /\ spc = "printed"
  /\ \E j \in DOMAIN envPairs :
       /\ ~Queryable(1, j)
       /\ \E k \in DOMAIN requests :
            requests[k].pair[1] > 1 \/ requests[k].pair[2] > j

\* C18: a failed query does not end the scan: when the run ends, every
\* combination with both mappings has been queried, failed queries or not,
\* and every answered query's nodes are among the records collected.
C18_FailedQueryDoesNotAbort ==
  /\ spc \in {"scanned", "printed"} =>
       \A i \in DOMAIN projects, j \in DOMAIN envPairs :
         Queryable(i, j) => QueriesFor(i, j) # {}
  /\ \A k \in DOMAIN requests :
       requests[k].op = "query" /\ requests[k].answer = "nodes" =>
         Cardinality({r \in DOMAIN openMRs :
                        /\ openMRs[r].project.fullPath = requests[k].body.fullPath
                        /\ openMRs[r].sourceBranch = requests[k].body.sourceBranches[1]
                        /\ openMRs[r].targetBranch = requests[k].body.targetBranches[1]})
           = requests[k].count

\* C18 witness: a run ended with a query that threw between two queries that
\* found a merge request, both records kept.
C18_Witness ==
  /\ spc = "printed"
  /\ \E a, b, c \in DOMAIN requests :
       /\ a < b /\ b < c
       /\ requests[a].answer = "nodes" /\ requests[a].count = 1
       /\ requests[b].answer = "thrown"
       /\ requests[c].answer = "nodes" /\ requests[c].count = 1
  /\ Len(openMRs) >= 2
  /\ warnings # <<>>

-----------------------------------------------------------------------------
(* Properties of the registry *)

Members(groups, name) == {groups[name][i] : i \in DOMAIN groups[name]}

\* C19: removeProject takes the project out of the registry and its path out
\* of every group's member list, every other project and every other member
\* staying as it was, in order; removeGroup takes out the group's entry and
\* leaves the registry and every other group as they were.
C19_RemovalsCascade ==
  [][/\ cfgLast'.op = "removeProject" =>
          /\ cfgProjects' = Without(cfgProjects, cfgLast'.fullPath)
          /\ DOMAIN cfgGroups' = DOMAIN cfgGroups
          /\ \A g \in DOMAIN cfgGroups :
               /\ cfgLast'.fullPath \notin Members(cfgGroups', g)
               /\ cfgGroups'[g] =
                    SelectSeq(cfgGroups[g], LAMBDA member : member # cfgLast'.fullPath)
     /\ cfgLast'.op = "removeGroup" =>
          /\ cfgProjects' = cfgProjects
          /\ DOMAIN cfgGroups' = DOMAIN cfgGroups \ {cfgLast'.name}
          /\ \A g \in DOMAIN cfgGroups' : cfgGroups'[g] = cfgGroups[g]]_vars

\* C19 witness: a project has been removed from a configuration with two
\* groups, another project staying a member of a group.
C19_Witness ==
  /\ cfgLast.op = "removeProject"
  /\ cfgLast.fullPath \notin DOMAIN cfgProjects
  /\ Cardinality(DOMAIN cfgGroups) >= 2
  /\ \E g \in DOMAIN cfgGroups : cfgGroups[g] # <<>>

Named == {options.projects[i] : i \in DOMAIN options.projects}

PairedPaths == {resolved.pairs[i].project.fullPath : i \in DOMAIN resolved.pairs}

\* The run ended with a message instead of going on to the preview.
Aborted == cmd \in {"error", "noProjects"}

\* C21: once the selection is resolved, every path named by --projects (or
\* member of the --group) has a branch pair, unless the run aborted with a
\* message.  The code drops a named path that is not a registry key without a
\* word and goes on with the others.
C21_NoNamedPathOmitted ==
  cmd # "start" => (Aborted \/ Named \subseteq PairedPaths)

\* C22: with --dry-run no create, lookup or update request is ever sent and
\* executeMergeRequests is never entered: the run ends after the preview.
C22_DryRunSendsNothing ==
  options.dryRun =>
    /\ requests = <<>> /\ inflight = {} /\ ~awaiting
    /\ pc = "idle"
    /\ cmd \in {"start", "error", "noProjects", "resolved", "dryRun"}

\* A dry run of a selection with pairs, with the credential present, ended
\* after the preview.
C22_Witness ==
  /\ cmd = "dryRun" /\ options.dryRun /\ options.token
  /\ Len(resolved.pairs) = MaxPairs
  /\ requests = <<>>

-----------------------------------------------------------------------------
(* Properties of the configuration file *)

\* Pairwise distinct names, and the order values 0, 1, ..., N-1.
DistinctNames(envs) ==
  \A i, j \in DOMAIN envs : envs[i].name = envs[j].name => i = j

SequentialOrders(envs) ==
  /\ \A i, j \in DOMAIN envs : envs[i].order = envs[j].order => i = j
  /\ {envs[i].order : i \in DOMAIN envs} = 0..(Len(envs) - 1)

\* The file handed to config set was read and parsed and is a configuration
\* validateConfig accepts.
GivenAccepted ==
  /\ given.readable /\ given.json
  /\ given.value.object /\ given.value.isArray
  /\ given.value.groupsOk /\ given.value.projectsOk
  /\ Len(given.value.environments) > 0
  /\ \A i \in DOMAIN given.value.environments :
       given.value.environments[i].name # SpacesName
  /\ DistinctNames(given.value.environments)
  /\ SequentialOrders(given.value.environments)

\* A file of the old format: some group holds project objects.
HoldsProjectObjects(file) ==
  /\ file.state = "json"
  /\ \E g \in DOMAIN file.groups :
       file.groups[g].shape = "projects" /\ Len(file.groups[g].projects) > 0

\* C23 as stated: config set changes the stored configuration only after the
\* file was read, parsed and accepted and the backup was written, and a run
\* that failed left the stored configuration as it was.
C23_FailureLeavesFileUnchanged ==
  ran.cmd = "set" =>
    /\ stored # origin => fpc = "saved" /\ GivenAccepted /\ backup.written
    /\ fpc = "failed" => stored = origin

\* C23: config set puts the file's configuration in place of the stored one
\* only after the file was read, parsed and accepted by validateConfig and
\* the backup of the loaded configuration was written.  A run that failed at
\* reading, parsing or validation left the stored file as it was; a run that
\* failed later left it as it was or, when it was of the old format, as
\* loadConfig migrated it.
C23_ReplacedOnlyAfterBackup ==
  ran.cmd = "set" =>
    /\ fpc = "saved" =>
         /\ GivenAccepted
         /\ backup.written /\ backup.config = loaded
         /\ stored.environments = given.value.environments
    /\ fpc # "saved" =>
         \/ stored = origin
         \/ ran.loads = 1 /\ HoldsProjectObjects(origin) /\ stored = loaded
    /\ (fpc = "failed" /\ ran.loads = 0) => stored = origin

\* config set went through: the stored configuration is the file's, and the
\* backup holds the configuration that was stored.
C23_Witness ==
  /\ ran.cmd = "set" /\ fpc = "saved"
  /\ stored # origin
  /\ backup.written /\ backup.config = origin
  /\ Len(origin.environments) > 0

\* C24: the chain the setup flow saved, and the chain config set accepted and
\* saved, has pairwise distinct names and the order values 0..N-1.  The setup
\* flow numbers the environments itself and takes the names as typed: the
\* same name twice is saved.
C24_WrittenChainsWellFormed ==
  fpc \in {"saved", "flowSaved"} =>
    /\ DistinctNames(stored.environments)
    /\ SequentialOrders(stored.environments)

\* C29: loadConfig on a file of the old format returns, and leaves stored, a
\* configuration of the new format: every group has the fullPaths of its old
\* projects, in order, as projectPaths, every such path is a key of the
\* registry, and a second loadConfig finds the same.  loadConfig looks at the
\* first group only: when that group is empty nothing is migrated.
C29_OldFormatMigrated ==
  (ran.cmd = "load" /\ fpc = "load" /\ HoldsProjectObjects(origin)) =>
    /\ stored = loaded
    /\ Len(loaded.groups) = Len(origin.groups)
    /\ \A g \in DOMAIN origin.groups :
         /\ loaded.groups[g].name = origin.groups[g].name
         /\ loaded.groups[g].shape = "projectPaths"
         /\ loaded.groups[g].projectPaths =
              [i \in DOMAIN origin.groups[g].projects |->
                 origin.groups[g].projects[i].fullPath]
         /\ \A i \in DOMAIN origin.groups[g].projects :
              origin.groups[g].projects[i].fullPath \in DOMAIN loaded.projects

-----------------------------------------------------------------------------
(* Properties of the interactive menu *)

\* C25 as stated: an abort at the main menu prompt ends the menu without an
\* error, and an abort during any flow the menu runs brings the menu back.
C25_AbortNeverAnError ==
  sub.end \in {"aborted", "aborted and caught"} =>
    IF sub.flow = "menu" THEN mpc = "ended" ELSE mpc \in {"enter", "menu"}

\* C25: an abort at the main menu prompt ends the menu without an error; an
\* abort during a flow chosen at the main menu re-enters the menu, which
\* shows the main menu again; an abort during the setup flow that the menu
\* runs by itself when no environment is configured is not caught and ends
\* the menu with the error.
C25_AbortHandledPerFlow ==
  sub.end \in {"aborted", "aborted and caught"} =>
    CASE sub.flow = "menu" -> mpc = "ended"
      [] sub.flow = "firstSetup" -> mpc = "error"
      [] OTHER -> /\ mpc \in {"enter", "menu"}
                  /\ ~loadConfig(stored).threw
                  /\ Len(loadConfig(stored).config.environments) > 0

\* A release chosen at the main menu was aborted at a prompt, and the main
\* menu is shown again.
C25_Witness ==
  /\ sub.flow = "release" /\ sub.end = "aborted"
  /\ mpc = "menu"

\* C26: the main menu is shown, an action is dispatched, and release,
\* backport or status have run, only with environments in the stored
\* configuration: without them interactiveMenu runs the setup flow and
\* enters itself again.
C26_NoMenuWithoutEnvironments ==
  /\ mpc \in {"menu", "dispatch"} => Len(stored.environments) > 0
  /\ sub.flow \in {"release", "backport", "status"} =>
       Len(stored.environments) > 0

\* The menu started without environments; the setup flow it ran saved a
\* chain, and the main menu is shown.
C26_Witness ==
  /\ Len(origin.environments) = 0
  /\ sub.flow = "firstSetup" /\ sub.end = "flowSaved"
  /\ mpc = "menu"

\* The names of the environments that have a neighbour by order value in the
\* direction of the flow.
WithAdjacent(envs, dir) ==
  {envs[i].name : i \in {k \in DOMAIN envs :
     \E j \in DOMAIN envs :
       envs[j].order = envs[k].order + (IF dir = "release" THEN 1 ELSE -1)}}

\* C27: for a chain validateConfig accepts, the release prompt offers exactly
\* the environments that have a next environment by order value and the
\* backport prompt exactly those that have a previous one, and a run whose
\* source was picked at the prompt does not end in the no-adjacent error.
\* The prompts offer by array position, which is the order only when the
\* array is stored in order.
C27_OfferedHaveAdjacent ==
  (/\ sub.flow \in {"release", "backport"}
   /\ Len(stored.environments) > 0
   /\ DistinctNames(stored.environments)
   /\ SequentialOrders(stored.environments)) =>
    /\ {offeredEnvs(stored.environments, sub.flow)[i].name :
          i \in DOMAIN offeredEnvs(stored.environments, sub.flow)}
         = WithAdjacent(stored.environments, sub.flow)
    /\ sub.end # "noAdjacent"

-----------------------------------------------------------------------------
(* Properties of the multi-project add flow *)

\* C28: after the save loop the stored registry holds exactly the projects
\* it held before and those counted as saved, no project reported as failed
\* among them, and without a saved project nothing was written.  A project
\* whose addProjectToGroup threw stays in the configuration in memory, which
\* saveConfig writes as soon as another project was saved.
C28_FailedNotPersisted ==
  addRun.ran =>
    /\ DOMAIN cfgProjects = DOMAIN addRun.before.projects \cup addRun.saved
    /\ addRun.saved = {} =>
         /\ cfgProjects = addRun.before.projects
         /\ cfgGroups = addRun.before.groups

-----------------------------------------------------------------------------
(* Properties of the version check *)

\* C30 as stated: the registry is queried only without a cache entry or with
\* one at least 8 hours old; a call made less than 8 hours after a fetch that
\* succeeded answers from the cache, with that fetch's version, and does not
\* fetch; after a failed fetch the stale entry is used; without cache and
\* fetch no update is reported.
C30_CachedAfterEveryFetch ==
  vresult.called =>
    /\ vresult.fetched # "none" =>
         ~vresult.before.some \/ vresult.at - vresult.before.checkedAt >= CACHE_TTL
    /\ (vresult.since.some /\ vresult.at - vresult.since.checkedAt < CACHE_TTL) =>
         /\ vresult.fetched = "none" /\ vresult.cached
         /\ vresult.latestVersion = vresult.since.latestVersion
    /\ (vresult.fetched = "failed" /\ vresult.before.some) =>
         vresult.cached /\ vresult.latestVersion = vresult.before.latestVersion
    /\ (vresult.fetched = "failed" /\ ~vresult.before.some) =>
         ~vresult.updateAvailable

\* C30: the registry is queried exactly when there is no cache entry or the
\* entry is at least 8 hours old; a call made less than 8 hours after the
\* entry was written answers from the cache, with the entry's version, and
\* does not fetch; the entry is that of the last fetch that succeeded
\* unless writing it failed, in which case the entry is older or missing and
\* the next call fetches again; after a failed fetch the stale entry is used;
\* without cache and fetch the current version is returned and no update is
\* reported.
C30_CachedWhileEntryFresh ==
  /\ cache.some =>
       /\ lastFetch.some
       /\ cache.checkedAt <= lastFetch.checkedAt
  /\ vresult.called =>
       /\ vresult.fetched # "none" <=>
            (~vresult.before.some
               \/ vresult.at - vresult.before.checkedAt >= CACHE_TTL)
       /\ vresult.fetched = "none" =>
            /\ vresult.cached
            /\ vresult.latestVersion = vresult.before.latestVersion
       /\ vresult.fetched = "ok" => ~vresult.cached
       /\ (vresult.fetched = "failed" /\ vresult.before.some) =>
            /\ vresult.cached
            /\ vresult.latestVersion = vresult.before.latestVersion
       /\ (vresult.fetched = "failed" /\ ~vresult.before.some) =>
            /\ ~vresult.updateAvailable /\ ~vresult.cached
            /\ vresult.latestVersion = vresult.currentVersion

\* A call a millisecond less than 8 hours after the fetch that wrote the
\* entry answered from the cache.
C30_Witness ==
  /\ vresult.called /\ vresult.fetched = "none" /\ vresult.cached
  /\ vresult.before = vresult.since
  /\ vresult.at - vresult.before.checkedAt = CACHE_TTL - 1
  /\ vresult.updateAvailable

====
